---- MODULE Spec2Model ----
(***************************************************************************)
(* FigmaRobloxForge: the asset resolution pipeline (image cache, uploads,  *)
(* polling), the CLI driver that assembles and writes the .rbxmx, the      *)
(* batch upload scripts, and the assembler's node classification.          *)
(***************************************************************************)
EXTENDS Integers, Sequences, FiniteSets, TLC

\* ------------------------------------------------------------------ bounds
\* Longest manifest.unresolvedImages list that is explored.
MaxUnresolved == 2
\* Number of asset ids the remote store hands out before every upload fails.
MaxAssets == 2
\* Number of program invocations (CLI or script runs) in one behaviour.
MaxRuns == 2

\* ------------------------------------------------------- program constants
\* pollOperation(operationPath, apiKey, maxAttempts = 60)
ImagesMaxAttempts == 60
\* MAX_POLL_ATTEMPTS of _upload_all.js
UploadAllMaxAttempts == 30
\* for (let i = 0; i < 30; i++) of pollOp in _upload_baked.js
BakedMaxAttempts == 30

\* ------------------------------------------------------------ value spaces
NoHash == "none"
NoAsset == 0
\* Content hashes that occur in manifests: a Figma image-fill hash and the
\* synthetic raster hash of node 60:1080 ('raster_' + id with ':' -> '_').
Hashes == {"img", "raster_60_1080"}
\* cacheKey of the two fixed uploads of _upload_baked.js, in order.
BakedKeys == <<"raster_60_1027", "raster_60_1080">>
AllKeys == Hashes \cup {BakedKeys[i] : i \in 1..Len(BakedKeys)}
\* The tree: a root container and one child.
RootId == "60:1000"
ChildId == "60:1080"
NodeIds == {RootId, ChildId}
Range(s) == {s[i] : i \in 1..Len(s)}

VARIABLES
  \* ---- persistent state (survives a run)
  cacheFile,      \* .figmaforge-image-cache.json: [status, entries]
  nextAssetId,    \* next asset id the remote store will hand out
  uploadsByHash,  \* history: successful uploads per hash by the cache-aware resolvers
  runs,           \* invocations started so far
  manifest,       \* the input manifest JSON on disk
  \* ---- state of the running program
  prog,           \* "none" | "cli" | "upload_all" | "baked"
  stage,          \* which upload loop is running: "none" | "ri" | "ua" | "bk"
  pc,             \* control point
  err,            \* why the run aborted
  flag,           \* --resolve-images
  tree,           \* the parsed manifest's nodes (with _resolvedImageId)
  memCache,       \* the in-memory cache object
  idx,            \* loop index into the hash list (1-based)
  resolvedCnt,    \* result.resolved / uploaded
  direct,         \* POST response carried a top-level assetId (kept while polling)
  wrote,          \* this run wrote its output file
  \* ---- observation of the uploads
  inflight,       \* uploads started and not yet settled
  gap,            \* "none" | "finished" | "delayed": what happened since the last upload settled
  startGap,       \* value of gap when the latest upload started
  failStage,      \* stage of the latest failed upload of this run: "none" | "ri" | "ua"
  uploadAfterFail,\* an upload was started in this run after one had failed
  \* ---- polling in isolation
  pollWho,        \* which poll loop runs: "none" | "images" | "upload_all" | "baked"
  pollPc,         \* "idle" | "fetch" | "sleep" | "returned" | "timeout" | "threw"
  pollI,          \* the loop variable i
  pollCount,      \* polls sent so far
  pollSawDone,    \* some poll reported done
  \* ---- classification in isolation
  clsPc,          \* "idle" | "picked" | "called"
  clsNode,        \* the node handed to classifyNode
  clsConfig,      \* the runtime config handed to classifyNode
  clsCtx,         \* where the node sits: root flag, parent layout, sibling count
  clsResult,      \* result of the latest call
  clsPrev,        \* the call before it: its result, and where the node sat then
  \* ---- geometry emission in isolation
  geoPc,          \* "idle" | "emitted"
  geoNode,        \* the node handed to emitNode
  geoCall,        \* emitNode's arguments: isRoot, parentHasAutoLayout, parent size
  geoOut,         \* what was emitted: class, Position, Size, AnchorPoint
  \* ---- text-stroke deduplication in isolation
  sdPc,           \* "idle" | "loaded" | "deduped"
  sdInput,        \* root.children of parsedInput, the parse that main keeps
  sdChildren,     \* root.children of the manifest that processManifest parses for itself
  sdFlagged,      \* ids of the nodes that carry _isStrokeDuplicate
  sdRemoved,      \* the returned removedCount
  sdEmitted,      \* ids of the nodes for which emitNode emitted an element
  sdSeen,         \* per pass after the resolver, the ids of the nodes it walked
  \* ---- incremental export: diff and snapshot over runs of the CLI
  dfPc,           \* "idle" | "written" | "diffed" | "saved" | "aborted"
  dfTree,         \* parsedInput's tree in this run
  dfAssetMap,     \* parsedInput.resolvedAssets || {}
  dfSnapshot,     \* the .manifest.json file: [status, entries]
  dfSavedFrom,    \* the tree from which the snapshot file was generated
  dfCache,        \* ids of the nodes whose raster hash has an entry in the image cache file
  dfUploads,      \* uploads performed in this run
  dfLooked,       \* ids of the nodes whose hash resolveImages looked up in this run
  dfResult,       \* the DiffManifest of this run
  \* ---- extraction of one node and the resolution of the manifest it yields
  exPc,           \* "idle" | "serialized" | "extracted" | "resolving" | "done" | "failed"
  exIr,           \* the IR node serializeNode returned
  exQueue,        \* rasterQueue: ids of the nodes queued for rasterization
  exUnresolved,   \* manifest.unresolvedImages, in order
  exExported,     \* hashes with data in exportedImages
  exCache,        \* hashes with an entry in the image cache file
  exLooked,       \* the hashes resolveImages has looked up in the cache, in order
  exUploaded,     \* the hashes resolveImages has uploaded in this run
  \* ---- assembly of one manifest into the .rbxmx document
  asmPc,          \* "idle" | "loaded" | "assembled" | "repeated" | "written" | "invalid" | "threw"
  asmManifest,    \* the manifest handed to assembleRbxmx
  refCounter,     \* the module-level referent counter
  asmOut,         \* the elements of the document, in document order
  asmPrev         \* the elements of the run before, on the same manifest

pipeVars == <<cacheFile, nextAssetId, uploadsByHash, runs, manifest, prog, stage, pc, err,
              flag, tree, memCache, idx, resolvedCnt, direct, wrote, inflight, gap,
              startGap, failStage, uploadAfterFail>>
pollVars == <<pollWho, pollPc, pollI, pollCount, pollSawDone>>
clsVars == <<clsPc, clsNode, clsConfig, clsCtx, clsResult, clsPrev>>
geoVars == <<geoPc, geoNode, geoCall, geoOut>>
\* The variables of the parts added to the three above.
sdVars == <<sdPc, sdInput, sdChildren, sdFlagged, sdRemoved, sdEmitted, sdSeen>>
dfVars == <<dfPc, dfTree, dfAssetMap, dfSnapshot, dfSavedFrom, dfCache, dfUploads, dfLooked,
           dfResult>>
exVars == <<exPc, exIr, exQueue, exUnresolved, exExported, exCache, exLooked, exUploaded>>
asmVars == <<asmPc, asmManifest, refCounter, asmOut, asmPrev>>
auxVars == <<geoVars, sdVars, dfVars, exVars, asmVars>>
vars == <<pipeVars, pollVars, clsVars, auxVars>>

\* ------------------------------------------------------------- the cache
EmptyEntries == [h \in AllKeys |-> NoAsset]

\* loadImageCache: the parsed file, or a fresh cache when the file is absent
\* or does not parse.
\* Variant that ignores the file.
loadImageCache_Fresh(file) == EmptyEntries
loadImageCache(file) == IF file.status = "ok" THEN file.entries ELSE EmptyEntries

\* saveImageCache: the whole in-memory cache replaces the file.
saveImageCache(cache) == [status |-> "ok", entries |-> cache]

\* if (cache.entries[imageHash])
IsCached(cache, h) == cache[h] # NoAsset

\* ------------------------------------------------------------- the tree
\* backfillRasterHashes: 'raster_52_480' -> node id '52:480'; keys without the
\* prefix are skipped.
rasterKeyNodeId(key) ==
  IF key = "raster_60_1080" THEN "60:1080"
  ELSE IF key = "raster_60_1027" THEN "60:1027"
  ELSE "none"

RasterKeys(unresolved) ==
  {unresolved[i] : i \in 1..Len(unresolved)} \ {"img"}

\* walk(): a node whose id matches a raster key and has no _rasterizedImageHash gets it.
backfillRasterHashes(t, unresolved) ==
  [n \in NodeIds |->
     IF t[n].raster = NoHash /\ \E k \in RasterKeys(unresolved) : rasterKeyNodeId(k) = n
     THEN [t[n] EXCEPT !.raster = CHOOSE k \in RasterKeys(unresolved) : rasterKeyNodeId(k) = n]
     ELSE t[n]]

\* walk(root) dereferences root as soon as one raster key exists.
backfillThrows(m) == ~m.hasRoot /\ RasterKeys(m.unresolved) # {}

\* applyResolvedId: every node with a visible IMAGE fill of that hash, or with
\* that _rasterizedImageHash, gets _resolvedImageId = rbxassetid://<assetId>.
\* Variant that matches image fills only.
applyResolvedId_FillOnly(t, h, assetId) ==
  [n \in NodeIds |->
     IF t[n].fill = h
     THEN [t[n] EXCEPT !.resolved = assetId]
     ELSE t[n]]
applyResolvedId(t, h, assetId) ==
  [n \in NodeIds |->
     IF t[n].fill = h \/ t[n].raster = h
     THEN [t[n] EXCEPT !.resolved = assetId]
     ELSE t[n]]

\* ----------------------------------------------------------- polling
PollWhos == {"images", "upload_all", "baked"}

maxAttempts(who) ==
  CASE who = "images" -> ImagesMaxAttempts
    [] who = "upload_all" -> UploadAllMaxAttempts
    [] OTHER -> BakedMaxAttempts

\* The loop test i < maxAttempts.
\* Variant with the loop test i <= maxAttempts.
PollContinues_OffByOne(i, max) == i <= max
PollContinues(i, max) == i < max

\* _upload_all.js and _upload_baked.js sleep before each poll, pollOperation of
\* the image pipeline after it.
SleepsFirst(who) == who \in {"upload_all", "baked"}

\* Top of the for loop with loop variable i.
PollEnter(who, i) ==
  IF PollContinues(i, maxAttempts(who))
  THEN (IF SleepsFirst(who) THEN "sleep" ELSE "fetch")
  ELSE "timeout"

PollIdle ==
  /\ pollWho = "none" /\ pollPc = "idle" /\ pollI = 0 /\ pollCount = 0
  /\ pollSawDone = FALSE

\* pollOperation / pollOp is called.
PollStart ==
  /\ pollPc = "idle"
  /\ \E who \in PollWhos :
       pollWho' = who /\ pollPc' = PollEnter(who, 0)
  /\ pollI' = 0 /\ pollCount' = 0 /\ pollSawDone' = FALSE
  /\ UNCHANGED <<pipeVars, clsVars, auxVars>>

\* One poll is answered: done, not done yet, a non-2xx status, or the fetch
\* rejects. pollOp has no try/catch and does not look at the status.
PollFetch ==
  /\ pollPc = "fetch"
  /\ pollCount' = pollCount + 1
  /\ \E out \in {"done", "pending", "http_error", "fetch_error"} :
       IF out = "done"
       THEN pollPc' = "returned" /\ pollSawDone' = TRUE /\ UNCHANGED pollI
       ELSE IF out = "fetch_error" /\ pollWho = "baked"
       THEN pollPc' = "threw" /\ UNCHANGED <<pollI, pollSawDone>>
       ELSE IF SleepsFirst(pollWho)
       THEN /\ pollI' = pollI + 1 /\ pollPc' = PollEnter(pollWho, pollI + 1)
            /\ UNCHANGED pollSawDone
       ELSE pollPc' = "sleep" /\ UNCHANGED <<pollI, pollSawDone>>
  /\ UNCHANGED <<pollWho, pipeVars, clsVars, auxVars>>

\* The 2 s timer fires.
PollSleep ==
  /\ pollPc = "sleep"
  /\ IF SleepsFirst(pollWho)
     THEN pollPc' = "fetch" /\ UNCHANGED pollI
     ELSE pollI' = pollI + 1 /\ pollPc' = PollEnter(pollWho, pollI + 1)
  /\ UNCHANGED <<pollWho, pollCount, pollSawDone, pipeVars, clsVars, auxVars>>

\* The caller takes the result or the exception.
PollReturn ==
  /\ pollPc \in {"returned", "timeout", "threw"}
  /\ pollWho' = "none" /\ pollPc' = "idle" /\ pollI' = 0 /\ pollCount' = 0
  /\ pollSawDone' = FALSE
  /\ UNCHANGED <<pipeVars, clsVars, auxVars>>

\* ------------------------------------------------------- classification
MaxChildren == 2
ChildrenAbsent == 0 - 1

\* The fields of a node that classifyNode can see; children is the length of
\* the children array, or ChildrenAbsent when the field is missing.
ClsNodes == [type : {"TEXT", "FRAME", "RECTANGLE"},
             isFlattened : {"absent", "false", "true"},
             children : ChildrenAbsent..MaxChildren]
ClsConfigs == {"default", "all_raster"}
ClsContexts == [isRoot : BOOLEAN, parentLayout : {"NONE", "HORIZONTAL"},
                siblings : {0, MaxChildren}]

\* Variant that reads node.children.length without the !node.children guard.
classifyNode_NoGuard(node, config) ==
  IF node.type = "TEXT" THEN "text_dynamic"
  ELSE IF node.isFlattened = "true" THEN "png"
  ELSE IF node.children = ChildrenAbsent THEN "TypeError"
  ELSE IF node.children = 0 THEN "png"
  ELSE "container"
classifyNode(node, config) ==
  IF node.type = "TEXT" THEN "text_dynamic"
  ELSE IF node.isFlattened = "true" THEN "png"
  ELSE IF node.children = ChildrenAbsent \/ node.children = 0 THEN "png"
  ELSE "container"

NoNode == [type |-> "FRAME", isFlattened |-> "absent", children |-> ChildrenAbsent]
NoCtx == [isRoot |-> TRUE, parentLayout |-> "NONE", siblings |-> 0]
NoCall == [result |-> "none", ctx |-> NoCtx, config |-> "default"]

ClsIdle ==
  /\ clsPc = "idle" /\ clsNode = NoNode /\ clsConfig = "default" /\ clsCtx = NoCtx
  /\ clsResult = "none" /\ clsPrev = NoCall

\* A node of some tree is about to be emitted.
ClsPick ==
  /\ clsPc = "idle"
  /\ clsNode' \in ClsNodes /\ clsConfig' \in ClsConfigs /\ clsCtx' \in ClsContexts
  /\ clsPc' = "picked" /\ clsResult' = "none" /\ clsPrev' = NoCall
  /\ UNCHANGED <<pipeVars, pollVars, auxVars>>

\* classifyNode(node, config) is called.
ClsCall ==
  /\ clsPc \in {"picked", "called"}
  /\ clsPrev' = [result |-> clsResult, ctx |-> clsCtx, config |-> clsConfig]
  /\ clsResult' = classifyNode(clsNode, clsConfig)
  /\ clsPc' = "called"
  /\ UNCHANGED <<clsNode, clsConfig, clsCtx, pipeVars, pollVars, auxVars>>

\* The same node is met under another parent, among other siblings, or with
\* another configuration, and classifyNode is called on it there.
ClsCallElsewhere ==
  /\ clsPc = "called"
  /\ clsCtx' \in ClsContexts /\ clsConfig' \in ClsConfigs
  /\ clsPrev' = [result |-> clsResult, ctx |-> clsCtx, config |-> clsConfig]
  /\ clsResult' = classifyNode(clsNode, clsConfig')
  /\ UNCHANGED <<clsPc, clsNode, pipeVars, pollVars, auxVars>>

ClsReset ==
  /\ clsPc = "called"
  /\ clsPc' = "idle" /\ clsNode' = NoNode /\ clsConfig' = "default" /\ clsCtx' = NoCtx
  /\ clsResult' = "none" /\ clsPrev' = NoCall
  /\ UNCHANGED <<pipeVars, pollVars, auxVars>>

\* ------------------------------------------------------------- geometry
\* Lengths are kept in half pixels (w2 = 2 * width) so that Math.round has
\* something to round. Math.round rounds halves up.
RoundH(h2) == (h2 + 1) \div 2
\* Math.round of a value given in quarter pixels.
RoundQ(q4) == (q4 + 2) \div 4

\* A scale or anchor component, as numerator and denominator.
Frac(n, d) == <<n, d>>
FracZero == Frac(0, 1)
FracHalf == Frac(1, 2)
FracOne == Frac(1, 1)
FracEq(a, b) == a[1] * b[2] = b[1] * a[2]

LayoutSizings == {"FIXED", "FILL", "HUG"}
ConstraintKinds == {"MIN", "MAX", "CENTER", "STRETCH", "SCALE"}
GeoConstraints == [horizontal : ConstraintKinds, vertical : ConstraintKinds]

\* Text nodes: no children, no render bounds.
GeoTextNodes ==
  [type : {"TEXT"}, isFlattened : {"absent"}, children : {ChildrenAbsent},
   isStrokeDuplicate : {FALSE}, name : {"Label"},
   layoutSizingHorizontal : LayoutSizings, layoutSizingVertical : LayoutSizings,
   constraints : GeoConstraints,
   x2 : {7}, y2 : {4}, w2 : {41}, h2 : {21}, renderBounds : {"absent"},
   dynamicName : BOOLEAN, textAutoResize : {"HEIGHT", "WIDTH_AND_HEIGHT"},
   parentBtn : BOOLEAN, textAlignHorizontal : {"LEFT", "CENTER", "RIGHT"},
   textAlignVertical : {"TOP", "CENTER"}]

\* Frames and shapes, with or without children, flattened or not, with or
\* without render bounds that extend 6 px beyond the box on each side.
GeoBoxNodes ==
  [type : {"FRAME"}, isFlattened : {"absent", "true"}, children : {0, 1},
   isStrokeDuplicate : {FALSE}, name : {"Panel", "TitleBar"},
   layoutSizingHorizontal : LayoutSizings, layoutSizingVertical : LayoutSizings,
   constraints : GeoConstraints,
   x2 : {7}, y2 : {4}, w2 : {40, 41}, h2 : {21}, renderBounds : {"absent", "expanded"},
   dynamicName : {FALSE}, textAutoResize : {"HEIGHT"},
   parentBtn : {FALSE}, textAlignHorizontal : {"LEFT"}, textAlignVertical : {"TOP"}]

\* Text nodes that deduplicateTextStrokes marked.
GeoDuplicateNodes ==
  [type : {"TEXT"}, isFlattened : {"absent"}, children : {ChildrenAbsent},
   isStrokeDuplicate : {TRUE}, name : {"Label"},
   layoutSizingHorizontal : LayoutSizings, layoutSizingVertical : LayoutSizings,
   constraints : {[horizontal |-> "MIN", vertical |-> "MIN"]},
   x2 : {7}, y2 : {4}, w2 : {41}, h2 : {21}, renderBounds : {"absent"},
   dynamicName : {FALSE}, textAutoResize : {"HEIGHT"},
   parentBtn : {FALSE}, textAlignHorizontal : {"LEFT"}, textAlignVertical : {"TOP"}]

GeoNodes == GeoTextNodes \cup GeoBoxNodes \cup GeoDuplicateNodes

\* node.width and node.height of the parent container, in half pixels.
ParentSizes == {[pw2 |-> 200, ph2 |-> 100], [pw2 |-> 81, ph2 |-> 60]}

UDim2(xs, xo, ys, yo) == [xs |-> xs, xo |-> xo, ys |-> ys, yo |-> yo]
NoAnchor == [present |-> FALSE, x |-> FracZero, y |-> FracZero]
Anchor(ax, ay) ==
  IF FracEq(ax, FracZero) /\ FracEq(ay, FracZero) THEN NoAnchor
  ELSE [present |-> TRUE, x |-> ax, y |-> ay]

\* One axis of the constraint translation of emitGeometry: c the constraint,
\* p2 the node's coordinate, d the default size offset, par2 the parent's
\* extent on the axis.
ConstraintAxis(c, p2, d, par2) ==
  CASE c = "MAX" ->
         [ps |-> FracOne, po |-> RoundH(p2 - par2), ss |-> FracZero, so |-> d,
          a |-> FracOne]
    [] c = "CENTER" ->
         [ps |-> FracHalf, po |-> RoundQ(2 * p2 + 2 * d - par2), ss |-> FracZero,
          so |-> d, a |-> FracHalf]
    [] c = "STRETCH" ->
         [ps |-> FracZero, po |-> RoundH(p2), ss |-> FracOne,
          so |-> RoundH(2 * d - par2), a |-> FracZero]
    [] c = "SCALE" ->
         [ps |-> IF par2 > 0 THEN Frac(p2, par2) ELSE FracZero, po |-> 0,
          ss |-> IF par2 > 0 THEN Frac(2 * d, par2) ELSE FracZero, so |-> 0,
          a |-> FracZero]
    [] OTHER ->
         [ps |-> FracZero, po |-> RoundH(p2), ss |-> FracZero, so |-> d,
          a |-> FracZero]

\* emitGeometry: [Position, Size, AnchorPoint].
emitGeometry(node, isRoot, parentHasAutoLayout, pw2, ph2, defaultSizeXOff, defaultSizeYOff) ==
  IF parentHasAutoLayout /\ ~isRoot
  THEN LET sxs == IF node.layoutSizingHorizontal = "FILL" THEN 1 ELSE 0
           sys == IF node.layoutSizingVertical = "FILL" THEN 1 ELSE 0
       IN [pos |-> UDim2(FracZero, 0, FracZero, 0),
           size |-> UDim2(Frac(sxs, 1), IF sxs > 0 THEN 0 ELSE defaultSizeXOff,
                          Frac(sys, 1), IF sys > 0 THEN 0 ELSE defaultSizeYOff),
           anchor |-> NoAnchor]
  ELSE IF isRoot
  THEN [pos |-> UDim2(FracHalf, 0, FracHalf, 0),
        size |-> UDim2(FracZero, defaultSizeXOff, FracZero, defaultSizeYOff),
        anchor |-> [present |-> TRUE, x |-> FracHalf, y |-> FracHalf]]
  ELSE LET textInBtn == node.type = "TEXT" /\ node.parentBtn /\ ~parentHasAutoLayout
           hc == IF textInBtn THEN "CENTER"
                 ELSE IF node.name = "TitleBar" THEN "STRETCH"
                 ELSE node.constraints.horizontal
           vc == IF textInBtn THEN "CENTER" ELSE node.constraints.vertical
           h == ConstraintAxis(hc, node.x2, defaultSizeXOff, pw2)
           v == ConstraintAxis(vc, node.y2, defaultSizeYOff, ph2)
       IN [pos |-> UDim2(h.ps, h.po, v.ps, v.po),
           size |-> UDim2(h.ss, h.so, v.ss, v.so),
           anchor |-> Anchor(h.a, v.a)]

Emitted(class, geo) ==
  [class |-> class, pos |-> geo.pos, size |-> geo.size, anchor |-> geo.anchor]

\* emitPngNode: render bounds give the default size unless a constraint other
\* than MIN (or the TitleBar override) asks for the logical box.
emitPngNode(node, isRoot, parentHasAutoLayout, pw2, ph2) ==
  LET effectiveW2 == IF node.renderBounds = "expanded" THEN node.w2 + 24 ELSE node.w2
      effectiveH2 == IF node.renderBounds = "expanded" THEN node.h2 + 24 ELSE node.h2
      isStretchOrCenter(c) == c \in {"STRETCH", "CENTER", "SCALE", "MAX"}
      useNodeW == isStretchOrCenter(node.constraints.horizontal) \/ node.name = "TitleBar"
      useNodeH == isStretchOrCenter(node.constraints.vertical)
      geoW == IF useNodeW THEN RoundH(node.w2) ELSE RoundH(effectiveW2)
      geoH == IF useNodeH THEN RoundH(node.h2) ELSE RoundH(effectiveH2)
  IN Emitted("ImageLabel",
             emitGeometry(node, isRoot, parentHasAutoLayout, pw2, ph2, geoW, geoH))

\* emitDynamicTextNode: it has no isRoot parameter and calls emitGeometry with
\* isRoot = false; wrapping dynamic text in a flow parent gets a fixed size
\* override, dynamic text outside a flow parent a position from its alignment.
emitDynamicTextNode(node, parentHasAutoLayout, pw2, ph2) ==
  LET isDynamic == node.dynamicName
      isHugText == node.textAutoResize = "WIDTH_AND_HEIGHT"
      base == emitGeometry(node, FALSE, parentHasAutoLayout, pw2, ph2,
                           RoundH(node.w2), RoundH(node.h2))
      sizeXml == IF isDynamic /\ parentHasAutoLayout /\ ~isHugText
                 THEN UDim2(FracOne, 0, FracZero, RoundH(node.h2))
                 ELSE base.size
      ax == CASE node.textAlignHorizontal = "CENTER" -> FracHalf
              [] node.textAlignHorizontal = "RIGHT" -> FracOne
              [] OTHER -> FracZero
      px == CASE node.textAlignHorizontal = "CENTER" -> RoundQ(2 * node.x2 + node.w2)
              [] node.textAlignHorizontal = "RIGHT" -> RoundH(node.x2 + node.w2)
              [] OTHER -> RoundH(node.x2)
      ay == CASE node.textAlignVertical = "CENTER" -> FracHalf
              [] node.textAlignVertical = "BOTTOM" -> FracOne
              [] OTHER -> FracZero
      py == CASE node.textAlignVertical = "CENTER" -> RoundQ(2 * node.y2 + node.h2)
              [] node.textAlignVertical = "BOTTOM" -> RoundH(node.y2 + node.h2)
              [] OTHER -> RoundH(node.y2)
      aligned == isDynamic /\ ~parentHasAutoLayout
  IN [class |-> "TextLabel",
      pos |-> IF aligned THEN UDim2(FracZero, px, FracZero, py) ELSE base.pos,
      size |-> sizeXml,
      anchor |-> IF aligned THEN Anchor(ax, ay) ELSE base.anchor]

\* emitContainerNode, as far as the Frame's own geometry goes.
emitContainerNode(node, isRoot, parentHasAutoLayout, pw2, ph2) ==
  Emitted("Frame",
          emitGeometry(node, isRoot, parentHasAutoLayout, pw2, ph2,
                       RoundH(node.w2), RoundH(node.h2)))

\* The empty string that emitNode returns for a stroke duplicate.
NoOutput ==
  [class |-> "", pos |-> UDim2(FracZero, 0, FracZero, 0),
   size |-> UDim2(FracZero, 0, FracZero, 0), anchor |-> NoAnchor]

emitNode(node, config, isRoot, parentHasAutoLayout, pw2, ph2) ==
  IF node.isStrokeDuplicate THEN NoOutput
  ELSE LET strategy == classifyNode(node, config)
       IN CASE strategy = "png" -> emitPngNode(node, isRoot, parentHasAutoLayout, pw2, ph2)
            [] strategy = "text_dynamic" ->
                 emitDynamicTextNode(node, parentHasAutoLayout, pw2, ph2)
            [] OTHER -> emitContainerNode(node, isRoot, parentHasAutoLayout, pw2, ph2)

NoGeoCall == [isRoot |-> FALSE, parentHasAutoLayout |-> FALSE, pw2 |-> 0, ph2 |-> 0]

GeoIdle ==
  /\ geoPc = "idle" /\ geoNode = NoNode /\ geoCall = NoGeoCall /\ geoOut = NoOutput

\* assembleRbxmx: emitNode(manifest.root, config, 1, true).
EmitRoot ==
  /\ geoPc = "idle"
  /\ \E node \in GeoNodes :
       /\ geoNode' = node
       /\ geoCall' = [isRoot |-> TRUE, parentHasAutoLayout |-> FALSE, pw2 |-> 0, ph2 |-> 0]
       /\ geoOut' = emitNode(node, "default", TRUE, FALSE, 0, 0)
  /\ geoPc' = "emitted"
  /\ UNCHANGED <<pipeVars, pollVars, clsVars, asmVars, sdVars, dfVars, exVars>>

\* emitContainerNode: emitNode(child, config, childZ, false, thisHasAutoLayout,
\* node.width, node.height, parentCr).
EmitChild ==
  /\ geoPc = "idle"
  /\ \E node \in GeoNodes, thisHasAutoLayout \in BOOLEAN, parent \in ParentSizes :
       /\ geoNode' = node
       /\ geoCall' = [isRoot |-> FALSE, parentHasAutoLayout |-> thisHasAutoLayout,
                      pw2 |-> parent.pw2, ph2 |-> parent.ph2]
       /\ geoOut' = emitNode(node, "default", FALSE, thisHasAutoLayout,
                             parent.pw2, parent.ph2)
  /\ geoPc' = "emitted"
  /\ UNCHANGED <<pipeVars, pollVars, clsVars, asmVars, sdVars, dfVars, exVars>>

\* emitContainerNode: an overflowing interactive child of a clipping parent
\* without auto layout is emitted as emitNode(promoted, config, childZ + 100,
\* false, false, 0, 0).
EmitPromoted ==
  /\ geoPc = "idle"
  /\ \E node \in GeoNodes :
       /\ geoNode' = node
       /\ geoCall' = NoGeoCall
       /\ geoOut' = emitNode(node, "default", FALSE, FALSE, 0, 0)
  /\ geoPc' = "emitted"
  /\ UNCHANGED <<pipeVars, pollVars, clsVars, asmVars, sdVars, dfVars, exVars>>

GeoReset ==
  /\ geoPc = "emitted"
  /\ geoPc' = "idle" /\ geoNode' = NoNode /\ geoCall' = NoGeoCall /\ geoOut' = NoOutput
  /\ UNCHANGED <<pipeVars, pollVars, clsVars, asmVars, sdVars, dfVars, exVars>>

\* ------------------------------------------------ text-stroke deduplication
\* if (group.length < 5) continue; if (core.length < 5) continue;
MinGroup == 5
\* const CLUSTER_RADIUS = 6
ClusterRadius == 6
\* if (coreXSpread > 8 || coreYSpread > 8) continue;
MaxCoreSpread == 8
\* strokeThickness > 0 ? Math.ceil(strokeThickness) : 2
DefaultThickness == 2

\* Math.ceil(n / d) for d > 0.
CeilDiv(n, d) == 0 - ((0 - n) \div d)

\* A child of the parent. Coordinates are in half pixels. gradient: some fill
\* has a type GRADIENT_* and is visible; effects: some effect is visible;
\* solid: the colour of the first visible SOLID fill, or "none".
SdChild(id, type, characters, x2, y2, gradient, effects, solid) ==
  [id |-> id, type |-> type, characters |-> characters, fontSize |-> 24,
   fontFamily |-> "Inter", x2 |-> x2, y2 |-> y2, gradient |-> gradient,
   effects |-> effects, solid |-> solid, isStrokeDuplicate |-> FALSE,
   inferredStrokeThickness |-> 0, inferredStrokeColor |-> "none"]

\* Offsets, in half pixels, of the copies that simulate the stroke: all at one
\* place, a ring of 1 px, a spread of 3 px by 1 px, a spread of 2.5 px, and a
\* loose group spread over 9 px.
ClusterPatterns ==
  { <<<<0, 0>>, <<0, 0>>, <<0, 0>>, <<0, 0>>, <<0, 0>>, <<0, 0>>, <<0, 0>>, <<0, 0>>>>,
    <<<<0, 2>>, <<4, 2>>, <<2, 0>>, <<2, 4>>, <<0, 0>>, <<4, 4>>, <<0, 4>>, <<4, 0>>>>,
    <<<<0, 0>>, <<6, 0>>, <<3, 2>>, <<1, 0>>, <<5, 2>>, <<2, 1>>, <<4, 0>>, <<6, 2>>>>,
    <<<<0, 0>>, <<5, 0>>, <<0, 5>>, <<5, 5>>, <<2, 2>>, <<3, 1>>, <<1, 3>>, <<4, 4>>>>,
    <<<<0, 0>>, <<18, 0>>, <<9, 0>>, <<4, 0>>, <<14, 0>>, <<9, 2>>, <<7, 0>>, <<11, 0>>>> }
ClusterSizes == {4, 5, 8}
\* Where the text at a distance sits, in half pixels from the cluster origin.
OutlierOffsets == {<<40, 0>>, <<0, 40>>, <<0 - 40, 0>>}
\* The texts at a distance: none, one with a gradient fill, a plain one, one
\* with an effect, a gradient one followed by a plain one, two plain ones.
OutlierKinds == {"none", "gradient", "plain", "effects", "gradient_then_plain", "two_plain"}
\* Its place among the siblings: before the copies, among them, after them.
OutlierPlaces == {"first", "middle", "last"}
\* Another sibling that is no copy.
ExtraSiblings == {"none", "frame", "other_text", "empty_text", "other_font"}

ClusterOriginX2 == 200
ClusterOriginY2 == 100

Copies(pattern, size) ==
  [i \in 1..size |->
     SdChild(i, "TEXT", "PLAY", ClusterOriginX2 + pattern[i][1],
             ClusterOriginY2 + pattern[i][2], FALSE, FALSE, "black")]

Outlier(kind, off) ==
  SdChild(9, "TEXT", "PLAY", ClusterOriginX2 + off[1], ClusterOriginY2 + off[2],
          kind = "gradient", kind = "effects", IF kind = "plain" THEN "white" ELSE "none")
SecondOutlier(off) ==
  SdChild(11, "TEXT", "PLAY", ClusterOriginX2 - off[1], ClusterOriginY2 - off[2],
          FALSE, FALSE, "white")
Outliers(kind, off) ==
  CASE kind = "gradient_then_plain" -> <<Outlier("gradient", off), SecondOutlier(off)>>
    [] kind = "two_plain" -> <<Outlier("plain", off), SecondOutlier(off)>>
    [] OTHER -> <<Outlier(kind, off)>>

Extra(kind) ==
  CASE kind = "frame" -> <<SdChild(10, "FRAME", "", 0, 0, FALSE, FALSE, "grey")>>
    [] kind = "other_text" -> <<SdChild(10, "TEXT", "SHOP", 200, 100, FALSE, FALSE, "black")>>
    [] kind = "empty_text" -> <<SdChild(10, "TEXT", "", 200, 100, FALSE, FALSE, "black")>>
    [] kind = "other_font" ->
         <<[SdChild(10, "TEXT", "PLAY", 200, 100, FALSE, FALSE, "black") EXCEPT !.fontSize = 32]>>
    [] OTHER -> <<>>

SiblingList(pattern, size, kind, off, place, extra) ==
  LET copies == Copies(pattern, size)
      half == size \div 2
      texts == IF kind = "none" THEN copies
               ELSE IF place = "first" THEN Outliers(kind, off) \o copies
               ELSE IF place = "last" THEN copies \o Outliers(kind, off)
               ELSE SubSeq(copies, 1, half) \o Outliers(kind, off)
                    \o SubSeq(copies, half + 1, size)
  IN texts \o Extra(extra)

SiblingLists ==
  {SiblingList(p, n, k, o, pl, e) :
     p \in ClusterPatterns, n \in ClusterSizes, k \in OutlierKinds, o \in OutlierOffsets,
     pl \in OutlierPlaces, e \in ExtraSiblings}

\* `${child.characters}|${fontSize}|${fontFamily}` of the TEXT children with
\* non-empty characters.
Grouped(c) == c.type = "TEXT" /\ c.characters # ""
GroupKey(c) == <<c.characters, c.fontSize, c.fontFamily>>
GroupKeys(children) ==
  {GroupKey(children[i]) : i \in {j \in 1..Len(children) : Grouped(children[j])}}
GroupOf(children, key) ==
  SelectSeq(children, LAMBDA c : Grouped(c) /\ GroupKey(c) = key)

\* sorted[Math.floor(sorted.length / 2)]
Median(vals) ==
  LET k == Len(vals) \div 2
  IN CHOOSE v \in Range(vals) :
       /\ Cardinality({i \in 1..Len(vals) : vals[i] < v}) <= k
       /\ Cardinality({i \in 1..Len(vals) : vals[i] <= v}) > k

Abs(n) == IF n < 0 THEN 0 - n ELSE n
MaxOf(S) == CHOOSE m \in S : \A n \in S : n <= m
MinOf(S) == CHOOSE m \in S : \A n \in S : m <= n
Spread(S) == MaxOf(S) - MinOf(S)

\* dx <= CLUSTER_RADIUS && dy <= CLUSTER_RADIUS
InCore(c, medianX, medianY) ==
  Abs(c.x2 - medianX) <= 2 * ClusterRadius /\ Abs(c.y2 - medianY) <= 2 * ClusterRadius
MedianX(group) == Median([i \in 1..Len(group) |-> group[i].x2])
MedianY(group) == Median([i \in 1..Len(group) |-> group[i].y2])
CoreOf(group) ==
  LET mx == MedianX(group)
      my == MedianY(group)
  IN SelectSeq(group, LAMBDA c : InCore(c, mx, my))
OutliersOf(group) ==
  LET mx == MedianX(group)
      my == MedianY(group)
  IN SelectSeq(group, LAMBDA c : ~InCore(c, mx, my))

\* Larger of the core's spreads, in half pixels.
CoreSpread2(core) ==
  LET sx == Spread({core[i].x2 : i \in 1..Len(core)})
      sy == Spread({core[i].y2 : i \in 1..Len(core)})
  IN IF sx > sy THEN sx ELSE sy

\* The group is taken for a stroke simulation.
\* Variant without the tests of the sizes of the group and of the core.
Collapses_AnySize(group) ==
  LET core == CoreOf(group)
  IN /\ Len(core) >= 1
     /\ Spread({core[i].x2 : i \in 1..Len(core)}) <= 2 * MaxCoreSpread
     /\ Spread({core[i].y2 : i \in 1..Len(core)}) <= 2 * MaxCoreSpread
\* Variant without the test of the core's spread.
Collapses_AnySpread(group) ==
  /\ Len(group) >= MinGroup
  /\ Len(CoreOf(group)) >= MinGroup
Collapses(group) ==
  /\ Len(group) >= MinGroup
  /\ LET core == CoreOf(group)
     IN /\ Len(core) >= MinGroup
        /\ Spread({core[i].x2 : i \in 1..Len(core)}) <= 2 * MaxCoreSpread
        /\ Spread({core[i].y2 : i \in 1..Len(core)}) <= 2 * MaxCoreSpread

\* Id of the survivor: the first outlier with a visible gradient fill or a
\* visible effect, else the last outlier, else the last node of the group.
\* Variant that always keeps the last node of the group.
SurvivorOf_LastOfGroup(group) == group[Len(group)].id
SurvivorOf(group) ==
  LET outliers == OutliersOf(group)
      styled == {i \in 1..Len(outliers) : outliers[i].gradient \/ outliers[i].effects}
  IN IF styled # {} THEN outliers[MinOf(styled)].id
     ELSE IF Len(outliers) > 0 THEN outliers[Len(outliers)].id
     ELSE group[Len(group)].id

\* strokeThickness > 0 ? Math.ceil(strokeThickness) : 2, with strokeThickness
\* = max spread / 2 in pixels.
InferredThickness(core) ==
  IF CoreSpread2(core) > 0 THEN CeilDiv(CoreSpread2(core), 4) ELSE DefaultThickness

\* core.find(n => n !== survivor), and the colour of its visible SOLID fill.
InferredColor(core, survivor) ==
  LET others == SelectSeq(core, LAMBDA c : c.id # survivor)
  IN IF Len(others) > 0 THEN others[1].solid ELSE "none"

\* The children after the marking loop over all groups.
\* Variant that marks the members of the core only.
MarkGroups_CoreOnly(children) ==
  [i \in 1..Len(children) |->
     LET c == children[i]
         group == GroupOf(children, GroupKey(c))
     IN IF ~Grouped(c) \/ ~Collapses(group) THEN c
        ELSE IF c.id # SurvivorOf(group) /\ InCore(c, MedianX(group), MedianY(group))
        THEN [c EXCEPT !.isStrokeDuplicate = TRUE]
        ELSE c]
MarkGroups(children) ==
  [i \in 1..Len(children) |->
     LET c == children[i]
         group == GroupOf(children, GroupKey(c))
     IN IF ~Grouped(c) \/ ~Collapses(group) THEN c
        ELSE IF c.id # SurvivorOf(group) THEN [c EXCEPT !.isStrokeDuplicate = TRUE]
        ELSE [c EXCEPT !.inferredStrokeThickness = InferredThickness(CoreOf(group)),
                       !.inferredStrokeColor =
                          IF InferredColor(CoreOf(group), c.id) # "none"
                          THEN InferredColor(CoreOf(group), c.id) ELSE @]]

\* deduplicateTextStrokes(parent) on one sibling list: the new parent.children,
\* the flagged nodes and the count that is returned.
deduplicateTextStrokes(children) ==
  LET marked == MarkGroups(children)
      flagged == {marked[i].id : i \in {j \in 1..Len(marked) : marked[j].isStrokeDuplicate}}
  IN [children |-> SelectSeq(marked, LAMBDA c : ~c.isStrokeDuplicate),
      flagged |-> flagged,
      removedCount |-> Cardinality(flagged)]

\* The passes of the CLI that follow the resolver.
Passes == {"resolve", "assemble", "bindings", "diff", "snapshot"}
NothingSeen == [p \in Passes |-> {}]
IdsOf(children) == {children[i].id : i \in 1..Len(children)}

SdIdle ==
  /\ sdPc = "idle" /\ sdInput = <<>> /\ sdChildren = <<>> /\ sdFlagged = {}
  /\ sdRemoved = 0 /\ sdEmitted = {} /\ sdSeen = NothingSeen

\* main parses the input (parsedInput), and processManifestAsync/Sync parses
\* JSON.stringify(parsedInput) again into a manifest of its own.
SdLoad ==
  /\ sdPc = "idle"
  /\ sdChildren' \in SiblingLists
  /\ sdInput' = sdChildren'
  /\ sdPc' = "loaded" /\ sdFlagged' = {} /\ sdRemoved' = 0
  /\ UNCHANGED <<sdEmitted, sdSeen, pipeVars, pollVars, clsVars, asmVars, geoVars, dfVars, exVars>>

\* deduplicateTextStrokes(manifest.root), called on a fresh manifest or once
\* more on its own result.
SdDedup ==
  /\ sdPc \in {"loaded", "deduped"}
  /\ LET r == deduplicateTextStrokes(sdChildren)
     IN /\ sdChildren' = r.children
        /\ sdFlagged' = sdFlagged \cup r.flagged
        /\ sdRemoved' = r.removedCount
  /\ sdPc' = "deduped"
  /\ UNCHANGED <<sdInput, sdEmitted, sdSeen, pipeVars, pollVars, clsVars, asmVars, geoVars, dfVars, exVars>>

\* --skip-dedup
SdSkipDedup ==
  /\ sdPc = "loaded"
  /\ sdPc' = "skipped"
  /\ UNCHANGED <<sdInput, sdChildren, sdFlagged, sdRemoved, sdEmitted, sdSeen,
                 pipeVars, pollVars, clsVars, asmVars, geoVars, dfVars, exVars>>

\* The rest of processManifestAsync/Sync on its own manifest: resolveImages
\* (with --resolve-images) walks the tree, and assembleRbxmx emits every child
\* of the root through emitNode, which emits nothing for a flagged node; the
\* output file is written.
SdAssemble ==
  /\ sdPc \in {"deduped", "skipped"}
  /\ \E resolve \in BOOLEAN :
       sdSeen' = [sdSeen EXCEPT !["resolve"] = IF resolve THEN IdsOf(sdChildren) ELSE {},
                                !["assemble"] = IdsOf(sdChildren)]
  /\ sdEmitted' = {sdChildren[i].id :
                     i \in {j \in 1..Len(sdChildren) : ~sdChildren[j].isStrokeDuplicate}}
  /\ sdPc' = "written"
  /\ UNCHANGED <<sdInput, sdChildren, sdFlagged, sdRemoved, pipeVars, pollVars, clsVars, asmVars,
                 geoVars, dfVars, exVars>>

\* generateBindings(rootNode, runtimeConfig), rootNode being parsedInput's root.
SdBindings ==
  /\ sdPc = "written"
  /\ sdSeen' = [sdSeen EXCEPT !["bindings"] = IdsOf(sdInput)]
  /\ sdPc' = "bound"
  /\ UNCHANGED <<sdInput, sdChildren, sdFlagged, sdRemoved, sdEmitted, pipeVars, pollVars,
                 clsVars, asmVars, geoVars, dfVars, exVars>>

\* --incremental: computeDiff(rootNode, path) collects the nodes of rootNode.
SdDiff ==
  /\ sdPc = "bound"
  /\ sdSeen' = [sdSeen EXCEPT !["diff"] = IdsOf(sdInput)]
  /\ sdPc' = "diffed"
  /\ UNCHANGED <<sdInput, sdChildren, sdFlagged, sdRemoved, sdEmitted, pipeVars, pollVars,
                 clsVars, asmVars, geoVars, dfVars, exVars>>

\* --save-manifest: generatePreviousManifest(rootNode, assetMap) walks rootNode.
SdSnapshot ==
  /\ sdPc \in {"bound", "diffed"}
  /\ sdSeen' = [sdSeen EXCEPT !["snapshot"] = IdsOf(sdInput)]
  /\ sdPc' = "saved"
  /\ UNCHANGED <<sdInput, sdChildren, sdFlagged, sdRemoved, sdEmitted, pipeVars, pollVars,
                 clsVars, asmVars, geoVars, dfVars, exVars>>

SdReset ==
  /\ sdPc # "idle"
  /\ sdPc' = "idle" /\ sdInput' = <<>> /\ sdChildren' = <<>> /\ sdFlagged' = {}
  /\ sdRemoved' = 0 /\ sdEmitted' = {} /\ sdSeen' = NothingSeen
  /\ UNCHANGED <<pipeVars, pollVars, clsVars, asmVars, geoVars, dfVars, exVars>>

\* ------------------------------------------------------ incremental diff
\* A node of the tree, with the fields that the diff engine reads. Widths are
\* in half pixels.
\* Layer names: B and C are both called "Icon".
NameOf(id) ==
  CASE id = "A" -> "Panel" [] id = "B" -> "Icon" [] id = "C" -> "Icon" [] OTHER -> "Badge"
DfNode(id, visible, w2) ==
  [id |-> id, name |-> NameOf(id), visible |-> visible, w2 |-> w2, h2 |-> 21]

\* Two-level trees: a root A with the children B, C, D in some selection; B
\* comes visible or hidden and in three widths, two of which round alike.
DfChildLists ==
  {<<DfNode("B", v, w)>> : v \in BOOLEAN, w \in {40, 41, 42}}
  \cup {<<DfNode("C", TRUE, 60)>>}
  \cup {<<DfNode("B", v, w), DfNode("C", TRUE, 60)>> : v \in BOOLEAN, w \in {40, 41, 42}}
  \cup {<<DfNode("B", TRUE, 40), DfNode("C", TRUE, 60), DfNode("D", TRUE, 80)>>}
DfTrees == [root : {DfNode("A", v, 200) : v \in BOOLEAN}, children : DfChildLists]
NoTree == [root |-> DfNode("", FALSE, 0), children |-> <<>>]
DfIds == {"A", "B", "C", "D"}

\* rbxassetid://<n> recorded for a node id in resolvedAssets; 0 stands for a
\* missing entry.
AssetOf(id) == CASE id = "A" -> 11 [] id = "B" -> 12 [] id = "C" -> 13 [] OTHER -> 14
NoAssets == [id \in DfIds |-> 0]
DfAssetMaps == {NoAssets, [id \in DfIds |-> AssetOf(id)]}

\* computeNodeHash: the digest of name, rounded width and height, child count
\* and joined child names (fills, effects, opacity, corner radius and
\* characters do not vary here); position and visibility are not hashed.
computeNodeHash(node, children) ==
  [name |-> node.name, width |-> RoundH(node.w2), height |-> RoundH(node.h2),
   childCount |-> Len(children), childNames |-> [i \in 1..Len(children) |-> children[i].name]]

VisibleChildren(t) == SelectSeq(t.children, LAMBDA c : c.visible)

\* collectNodesWithHashes: a hidden node is skipped with all below it.
\* Variant that collects hidden nodes too.
collectNodesWithHashes_All(t) ==
  [id \in {t.root.id} \cup IdsOf(t.children) |->
     IF id = t.root.id THEN computeNodeHash(t.root, t.children)
     ELSE computeNodeHash(CHOOSE c \in Range(t.children) : c.id = id, <<>>)]
collectNodesWithHashes(t) ==
  IF ~t.root.visible THEN [id \in {} |-> 0]
  ELSE [id \in {t.root.id} \cup IdsOf(VisibleChildren(t)) |->
          IF id = t.root.id THEN computeNodeHash(t.root, t.children)
          ELSE computeNodeHash(CHOOSE c \in Range(t.children) : c.id = id, <<>>)]

\* collectAllNodeIds: every node, hidden or not.
\* Variant that skips hidden nodes.
collectAllNodeIds_Visible(t) == DOMAIN collectNodesWithHashes(t)
collectAllNodeIds(t) == {t.root.id} \cup IdsOf(t.children)

NoEntries == [id \in {} |-> 0]
EmptyDiff ==
  [changed |-> {}, unchanged |-> {}, added |-> {}, removed |-> {}, reuseMap |-> NoEntries]

\* computeDiff: a snapshot file that cannot be read or parsed makes every node
\* "added".
\* Variant that fills the reuse map for changed nodes too.
computeDiff_ReuseChanged(t, file) ==
  IF file.status # "ok"
  THEN [EmptyDiff EXCEPT !.added = collectAllNodeIds(t)]
  ELSE LET currentNodes == collectNodesWithHashes(t)
           cur == DOMAIN currentNodes
           prev == DOMAIN file.entries
       IN [changed |-> {id \in cur \cap prev : file.entries[id].hash # currentNodes[id]},
           unchanged |-> {id \in cur \cap prev : file.entries[id].hash = currentNodes[id]},
           added |-> cur \ prev,
           removed |-> prev \ cur,
           reuseMap |-> [id \in cur \cap prev |-> file.entries[id].assetId]]
computeDiff(t, file) ==
  IF file.status # "ok"
  THEN [EmptyDiff EXCEPT !.added = collectAllNodeIds(t)]
  ELSE LET currentNodes == collectNodesWithHashes(t)
           cur == DOMAIN currentNodes
           prev == DOMAIN file.entries
           unchanged == {id \in cur \cap prev : file.entries[id].hash = currentNodes[id]}
       IN [changed |-> {id \in cur \cap prev : file.entries[id].hash # currentNodes[id]},
           unchanged |-> unchanged,
           added |-> cur \ prev,
           removed |-> prev \ cur,
           reuseMap |-> [id \in unchanged |-> file.entries[id].assetId]]

\* generatePreviousManifest: an entry for every visible node, reached through
\* visible nodes, that has an asset id in assetMap.
generatePreviousManifest(t, assetMap) ==
  LET currentNodes == collectNodesWithHashes(t)
  IN [status |-> "ok",
      entries |-> [id \in {n \in DOMAIN currentNodes : assetMap[n] # 0} |->
                     [hash |-> currentNodes[id], assetId |-> assetMap[id]]]]

\* The nodes for which the extraction queues a raster export: the leaves.
RasterIds(t) == IdsOf(t.children)

DfIdle ==
  /\ dfPc = "idle" /\ dfTree = NoTree /\ dfAssetMap = NoAssets
  /\ dfSnapshot = [status |-> "absent", entries |-> NoEntries] /\ dfSavedFrom = NoTree
  /\ dfCache = {} /\ dfUploads = 0 /\ dfLooked = {} /\ dfResult = EmptyDiff

\* A run of the CLI with --resolve-images up to the written output: the
\* hashes without a cache entry are uploaded; the cache file is saved when
\* all uploads succeeded, and a failed upload aborts the run.
DfRun ==
  /\ dfPc = "idle"
  /\ dfTree' \in DfTrees /\ dfAssetMap' \in DfAssetMaps
  /\ dfResult' = EmptyDiff
  /\ LET missing == RasterIds(dfTree') \ dfCache
         queue == dfTree'.children
     IN \/ /\ dfUploads' = Cardinality(missing)
           /\ dfLooked' = RasterIds(dfTree')
           /\ dfCache' = dfCache \cup missing
           /\ dfPc' = "written"
        \/ /\ \E k \in 1..Len(queue) :
                /\ queue[k].id \in missing
                /\ dfLooked' = IdsOf(SubSeq(queue, 1, k))
                /\ dfUploads' = Cardinality(missing \cap IdsOf(SubSeq(queue, 1, k - 1)))
           /\ dfPc' = "aborted"
           /\ UNCHANGED dfCache
  /\ UNCHANGED <<dfSnapshot, dfSavedFrom, pipeVars, pollVars, clsVars, asmVars, geoVars, sdVars, exVars>>

\* --incremental <prev>: computeDiff(rootNode, path).
DfCompute ==
  /\ dfPc = "written"
  /\ dfResult' = computeDiff(dfTree, dfSnapshot)
  /\ dfPc' = "diffed"
  /\ UNCHANGED <<dfTree, dfAssetMap, dfSnapshot, dfSavedFrom, dfCache, dfUploads, dfLooked,
                 pipeVars, pollVars, clsVars, asmVars, geoVars, sdVars, exVars>>

\* --save-manifest: generatePreviousManifest(rootNode, assetMap) is written.
DfSave ==
  /\ dfPc \in {"written", "diffed"}
  /\ dfSnapshot' = generatePreviousManifest(dfTree, dfAssetMap)
  /\ dfSavedFrom' = dfTree
  /\ dfPc' = "saved"
  /\ UNCHANGED <<dfTree, dfAssetMap, dfCache, dfUploads, dfLooked, dfResult,
                 pipeVars, pollVars, clsVars, asmVars, geoVars, sdVars, exVars>>

\* The snapshot file is deleted or damaged between two runs.
DfLoseSnapshot ==
  /\ dfPc = "idle" /\ dfSnapshot.status = "ok"
  /\ \E st \in {"absent", "corrupt"} : dfSnapshot' = [status |-> st, entries |-> NoEntries]
  /\ dfSavedFrom' = NoTree
  /\ UNCHANGED <<dfPc, dfTree, dfAssetMap, dfCache, dfUploads, dfLooked, dfResult,
                 pipeVars, pollVars, clsVars, asmVars, geoVars, sdVars, exVars>>

\* The process exits.
DfEnd ==
  /\ dfPc \in {"written", "diffed", "saved", "aborted"}
  /\ dfPc' = "idle" /\ dfTree' = NoTree /\ dfAssetMap' = NoAssets /\ dfUploads' = 0
  /\ dfLooked' = {} /\ dfResult' = EmptyDiff
  /\ UNCHANGED <<dfSnapshot, dfSavedFrom, dfCache, pipeVars, pollVars, clsVars, asmVars, geoVars,
                 sdVars, exVars>>

\* ------------------------------------------------ the extraction script
\* The Figma layers handed to serializeNode.  Only FRAME layers have children.
ExNodeId == "52:480"
ExTypes == {"TEXT", "RECTANGLE", "FRAME"}
\* node.fills.filter(f => f.visible !== false), by paint type.
ExFillLists == {<< >>, <<"SOLID">>, <<"GRADIENT_LINEAR">>, <<"IMAGE">>, <<"SOLID", "SOLID">>}
FigmaNodes ==
  {n \in [id : {ExNodeId}, type : ExTypes, hasChildren : BOOLEAN,
          visibleFills : ExFillLists, hasVisibleStroke : BOOLEAN,
          isFlattenTag : BOOLEAN, hasExportAsync : BOOLEAN] :
     n.hasChildren => n.type = "FRAME"}

\* 'raster_' + figmaNode.id.replace(/:/g, '_'), and the imageHash of an IMAGE fill.
RasterHashOf(id) == <<"raster", id>>
ImageHashOf(id) == <<"image", id>>

\* serializeNode: the layer-slicing classification of one node.  The result
\* holds the annotations of the IR node, whether the node was pushed onto
\* rasterQueue, and the image-fill hashes serializeFill pushed.
serializeNode(node) ==
  LET hasVisibleFill == Len(node.visibleFills) > 0
      solid == /\ Len(node.visibleFills) = 1
               /\ node.visibleFills[1] = "SOLID"
               /\ ~node.hasVisibleStroke
               /\ node.type # "TEXT"
               /\ ~node.isFlattenTag
      hasVisualBackground == IF solid THEN FALSE
                             ELSE hasVisibleFill \/ node.hasVisibleStroke
      branch == IF node.isFlattenTag THEN "flatten"
                ELSE IF node.type = "TEXT" THEN "text"
                ELSE IF node.hasChildren THEN "container"
                ELSE "leaf"
      queued == CASE branch = "flatten" -> node.hasExportAsync
                  [] branch = "text" -> FALSE
                  [] branch = "container" -> hasVisualBackground /\ node.hasExportAsync
                  [] OTHER -> node.hasExportAsync
  IN  [ir |-> [id |-> node.id, type |-> node.type,
               hasChildren |-> node.hasChildren,
               visibleFills |-> node.visibleFills,
               hasVisibleStroke |-> node.hasVisibleStroke,
               isFlattenTag |-> node.isFlattenTag,
               solidFill |-> solid,
               isFlattened |-> branch \in {"flatten", "leaf"},
               isDynamic |-> branch = "text",
               isHybrid |-> branch = "container" /\ hasVisualBackground],
       queued |-> queued,
       imageHashes |-> IF \E i \in 1..Len(node.visibleFills) : node.visibleFills[i] = "IMAGE"
                       THEN <<ImageHashOf(node.id)>> ELSE << >>]

NoIr == [id |-> "none"]

ExIdle ==
  /\ exPc = "idle" /\ exIr = NoIr /\ exQueue = {} /\ exUnresolved = << >>
  /\ exExported = {} /\ exCache = {} /\ exLooked = << >> /\ exUploaded = {}

\* const rootIR = serializeNode(root)
ExSerialize ==
  /\ exPc = "idle"
  /\ \E node \in FigmaNodes :
       LET r == serializeNode(node)
       IN  /\ exIr' = r.ir
           /\ exQueue' = IF r.queued THEN {node.id} ELSE {}
           /\ exUnresolved' = r.imageHashes
  /\ exPc' = "serialized"
  /\ UNCHANGED <<exExported, exCache, exLooked, exUploaded, pipeVars, pollVars, clsVars, asmVars,
                 geoVars, sdVars, dfVars>>

\* The rasterization loop: phase 1 gives every queued node its raster hash
\* and records it as unresolved; phase 2 exports the PNGs unless SKIP_PNG.
\* The data of image fills comes from the separate image export script.
ExRasterize ==
  /\ exPc = "serialized"
  /\ \E skipPng \in BOOLEAN, imagesExported \in BOOLEAN :
       LET rasters == {RasterHashOf(id) : id \in exQueue}
       IN  /\ exUnresolved' = exUnresolved \o
                 (IF exQueue = {} THEN << >> ELSE <<RasterHashOf(ExNodeId)>>)
           /\ exExported' = (IF skipPng THEN {} ELSE rasters) \cup
                            (IF imagesExported THEN Range(exUnresolved) ELSE {})
  /\ exPc' = "extracted"
  /\ UNCHANGED <<exIr, exQueue, exCache, exLooked, exUploaded, pipeVars, pollVars,
                 clsVars, asmVars, geoVars, sdVars, dfVars>>

\* resolveImages returns at once for an empty unresolvedImages list (the
\* CLI does not even call it then).
ExNothingToResolve ==
  /\ exPc = "extracted" /\ exUnresolved = << >>
  /\ exPc' = "done"
  /\ UNCHANGED <<exIr, exQueue, exUnresolved, exExported, exCache, exLooked, exUploaded,
                 pipeVars, pollVars, clsVars, asmVars, geoVars, sdVars, dfVars>>

\* One turn of resolveImages' loop over manifest.unresolvedImages: the cache
\* lookup, then, on a miss, the upload of the exported data (fail fast when
\* the data is missing or the upload fails).
ExResolveOne ==
  /\ exPc \in {"extracted", "resolving"}
  /\ Len(exLooked) < Len(exUnresolved)
  /\ LET imageHash == exUnresolved[Len(exLooked) + 1]
     IN  /\ exLooked' = Append(exLooked, imageHash)
         /\ IF imageHash \in exCache \cup exUploaded
            THEN exPc' = "resolving" /\ exUploaded' = exUploaded
            ELSE IF imageHash \notin exExported
            THEN exPc' = "failed" /\ exUploaded' = exUploaded
            ELSE \E ok \in BOOLEAN :
                   IF ok THEN exPc' = "resolving" /\ exUploaded' = exUploaded \cup {imageHash}
                   ELSE exPc' = "failed" /\ exUploaded' = exUploaded
  /\ UNCHANGED <<exIr, exQueue, exUnresolved, exExported, exCache, pipeVars, pollVars,
                 clsVars, asmVars, geoVars, sdVars, dfVars>>

\* saveImageCache(cache) after the loop.
ExSaveCache ==
  /\ exPc = "resolving" /\ Len(exLooked) = Len(exUnresolved)
  /\ exCache' = exCache \cup exUploaded
  /\ exPc' = "done"
  /\ UNCHANGED <<exIr, exQueue, exUnresolved, exExported, exLooked, exUploaded, pipeVars,
                 pollVars, clsVars, asmVars, geoVars, sdVars, dfVars>>

\* The run is over; the cache file stays.
ExEnd ==
  /\ exPc \in {"done", "failed"}
  /\ exPc' = "idle" /\ exIr' = NoIr /\ exQueue' = {} /\ exUnresolved' = << >>
  /\ exExported' = {} /\ exLooked' = << >> /\ exUploaded' = {}
  /\ UNCHANGED <<exCache, pipeVars, pollVars, clsVars, asmVars, geoVars, sdVars, dfVars>>

\* ---------------------------------------------------------------- assembly
\* A referent is the text "RBX" followed by the counter's value.
\* Variant that leaves the counter as it is.
nextRef_NoIncrement(c) == [ref |-> <<"RBX", c>>, c |-> c]
\* nextRef(): the referent for the counter's value, and the counter after it.
nextRef(c) == [ref |-> <<"RBX", c>>, c |-> c + 1]

\* config.interactivePatterns of the default configuration, compiled without
\* regard to case.
interactivePatterns == {"btn", "button", "close", "submit", "toggle", "tab_", "back", "_tab"}
\* The node names of the manifests below and, for each, the patterns that
\* occur in it.
AsmNames == {"Modal", "ShopButton", "Panel", "BuyButton", "PricePill", "CloseBtn", "Icon",
             "Title", "Footer"}
PatternsIn(name) ==
  CASE name = "ShopButton" -> {"button"}
    [] name = "BuyButton" -> {"button"}
    [] name = "CloseBtn" -> {"close", "btn"}
    [] OTHER -> {}
isInteractive(name) == \E p \in interactivePatterns : p \in PatternsIn(name)

\* node.cornerRadius is a number or an array of four numbers.
RadiusNumber(r) == <<"number", r>>
RadiusArray(tl, tr, br, bl) == <<"array", tl, tr, br, bl>>
IsArray(cornerRadius) == cornerRadius[1] = "array"

\* The emit functions below return the <Item> elements of the text that the
\* functions of the same names return (their geometry is modelled above).
\* One <Item> of the document: its referent, class, Name and ZIndex
\* properties, the id of the design node it was emitted for (0 for a synthetic
\* element), what it is, how deep it is nested in the text returned so far, the
\* CornerRadius of a UICorner, ClipsDescendants, and the node position that
\* its geometry was computed from.
NoRadius == <<"none", 0>>
Elem(ref, class, name, z, node, role) ==
  [ref |-> ref, class |-> class, name |-> name, z |-> z, node |-> node, role |-> role,
   depth |-> 0, cr |-> NoRadius, clips |-> FALSE, x |-> 0, y |-> 0]
\* Text placed between an element's <Properties> and its </Item>.
Nest(xml) == [i \in 1..Len(xml) |-> [xml[i] EXCEPT !.depth = @ + 1]]
NoXml == <<>>

\* A UICorner: scale 0.5 for a circle, otherwise the radius in pixels.
CornerElem(ref, role, radius, isCircle) ==
  [Elem(ref, "UICorner", <<>>, 0, 0, role)
     EXCEPT !.cr = IF isCircle THEN <<"scale", 5>> ELSE <<"offset", radius>>]

emitInteractiveOverlay(parentName, maxChildZIndex, c) ==
  LET r == nextRef(c)
  IN [xml |-> <<Elem(r.ref, "TextButton", <<parentName, "_Interact">>, maxChildZIndex + 10,
                     0, "overlay")>>,
      c |-> r.c]

\* The edge test of emitPngNode: the node spans 85% of one dimension of the
\* parent and touches one of its ends, within 5 px.
HugsParent(node, pw, ph) ==
  LET touchesLeft == node.x <= 5
      touchesTop == node.y <= 5
      touchesRight == pw > 0 /\ node.x + node.width >= pw - 5
      touchesBottom == ph > 0 /\ node.y + node.height >= ph - 5
      isWide == pw > 0 /\ node.width * 100 >= pw * 85
      isTall == ph > 0 /\ node.height * 100 >= ph * 85
  IN (isWide /\ (touchesLeft \/ touchesRight)) \/ (isTall /\ (touchesTop \/ touchesBottom))

emitPngNodeItems(node, zIndex, isRoot, parentHasAutoLayout, parentWidth, parentHeight, parentCornerRadius, c) ==
  LET r == nextRef(c)
      self == [Elem(r.ref, "ImageLabel", <<node.name>>, zIndex, node.id, "node")
                 EXCEPT !.x = node.x, !.y = node.y]
      ov == IF node.isFlattened /\ isInteractive(node.name)
            THEN emitInteractiveOverlay(node.name, zIndex, r.c)
            ELSE [xml |-> NoXml, c |-> r.c]
      withCorner == parentCornerRadius > 0 /\ ~isRoot
                    /\ HugsParent(node, parentWidth, parentHeight)
      crRef == nextRef(ov.c)
  IN IF withCorner
     THEN [xml |-> <<self>> \o Nest(ov.xml \o
                      <<CornerElem(crRef.ref, "corner", parentCornerRadius, FALSE)>>),
           c |-> crRef.c]
     ELSE [xml |-> <<self>> \o Nest(ov.xml), c |-> ov.c]

emitDynamicTextNodeItems(node, zIndex, parentHasAutoLayout, parentWidth, parentHeight, c) ==
  LET r == nextRef(c)
      self == [Elem(r.ref, "TextLabel", <<node.name>>, zIndex, node.id, "node")
                 EXCEPT !.x = node.x, !.y = node.y]
      sRef == nextRef(r.c)
  IN IF node.stroke
     THEN [xml |-> <<self, [Elem(sRef.ref, "UIStroke", <<>>, 0, 0, "stroke")
                              EXCEPT !.depth = 1]>>,
           c |-> sRef.c]
     ELSE [xml |-> <<self>>, c |-> r.c]

\* The override in emitGeometry for a frame named PricePill: of several TEXT
\* children only the last one stays in node.children.
dropDoubleText(children) ==
  LET textChildren == SelectSeq(children, LAMBDA ch : ch.type = "TEXT")
      last == textChildren[Len(textChildren)]
  IN IF Len(textChildren) > 1
     THEN SelectSeq(children, LAMBDA ch : ch.type # "TEXT" \/ ch.id = last.id)
     ELSE children
\* node as emitGeometry leaves it; the override lies behind the returns for a
\* flow child and for the root.
AfterGeometry(node, isRoot, parentHasAutoLayout) ==
  IF ~parentHasAutoLayout /\ ~isRoot /\ node.type = "FRAME" /\ node.name = "PricePill"
  THEN [node EXCEPT !.children = dropDoubleText(@)]
  ELSE node

\* The radius that the container's UICorner and the UICorner of its _BG use.
FirstRadius(cornerRadius) == cornerRadius[2]
\* parentCr: the radius that decides promotion and that the children are told.
LargestRadius(cornerRadius) ==
  IF IsArray(cornerRadius)
  THEN MaxOf({cornerRadius[2], cornerRadius[3], cornerRadius[4], cornerRadius[5]})
  ELSE cornerRadius[2]

exceedsBounds(child, node) ==
  \/ child.x < 0 \/ child.y < 0
  \/ child.x + child.width > node.width + 5
  \/ child.y + child.height > node.height + 5

RECURSIVE emitNodeItems(_, _, _, _, _, _, _, _)
RECURSIVE emitChildren(_, _, _, _, _, _, _)

\* The forEach over node.children: st carries lines, promotedChildrenXml,
\* maxChildZ and the referent counter; i counts from 1, the code's index from 0.
emitChildren(node, i, isRoot, thisHasAutoLayout, childZBase, parentCr, st) ==
  IF i > Len(node.children) THEN st
  ELSE LET child == node.children[i]
           childZ == childZBase + (i - 1)
           parentClips == parentCr > 0 /\ ~isRoot
           promote == /\ ~thisHasAutoLayout /\ ~isRoot
                      /\ exceedsBounds(child, node) /\ parentClips
                      /\ isInteractive(child.name)
           promoted == [child EXCEPT !.x = @ + node.x, !.y = @ + node.y]
           e == IF promote
                THEN emitNodeItems(promoted, childZ + 100, FALSE, FALSE, 0, 0, 0, st.c)
                ELSE emitNodeItems(child, childZ, FALSE, thisHasAutoLayout, node.width,
                              node.height, parentCr, st.c)
       IN emitChildren(node, i + 1, isRoot, thisHasAutoLayout, childZBase, parentCr,
            [lines |-> IF promote THEN st.lines ELSE st.lines \o e.xml,
             promoted |-> IF promote THEN st.promoted \o e.xml ELSE st.promoted,
             maxChildZ |-> MaxOf({st.maxChildZ, childZ}),
             c |-> e.c])

\* The nodes of the manifests here are no scroll containers: the class is
\* Frame and isScroll is false.
emitContainerNodeItems(node0, zIndex, isRoot, parentHasAutoLayout, parentWidth, parentHeight, c) ==
  LET r == nextRef(c)
      node == AfterGeometry(node0, isRoot, parentHasAutoLayout)
      hasRasterBG == node.hybridBg
      childrenHaveShadows == \E k \in 1..Len(node.children) : node.children[k].shadow
      self == [Elem(r.ref, "Frame", <<node.name>>, zIndex, node.id, "node")
                 EXCEPT !.x = node.x, !.y = node.y,
                        !.clips = IF isRoot THEN node.clipsContent
                                  ELSE node.clipsContent /\ ~childrenHaveShadows]
      cr == IF IsArray(node.cornerRadius) THEN FirstRadius(node.cornerRadius)
            ELSE node.cornerRadius[2]
      isCircle == 2 * cr >= MinOf({node.width, node.height})
      crRef == nextRef(r.c)
      crXml == IF cr > 0 THEN <<CornerElem(crRef.ref, "corner", cr, isCircle)>> ELSE NoXml
      c1 == IF cr > 0 THEN crRef.c ELSE r.c
      \* the _BG underlay with its own UICorner
      bgRef == nextRef(c1)
      bgCr == IF IsArray(node.cornerRadius) THEN FirstRadius(node.cornerRadius)
              ELSE node.cornerRadius[2]
      bgCrRef == nextRef(bgRef.c)
      bgXml == IF ~hasRasterBG THEN NoXml
               ELSE <<Elem(bgRef.ref, "ImageLabel", <<"_BG">>, 0, 0, "bg")>> \o
                    (IF bgCr > 0
                     THEN Nest(<<CornerElem(bgCrRef.ref, "bgcorner", bgCr,
                                            2 * bgCr >= MinOf({node.width, node.height}))>>)
                     ELSE NoXml)
      c2 == IF ~hasRasterBG THEN c1 ELSE IF bgCr > 0 THEN bgCrRef.c ELSE bgRef.c
      \* the Content wrapper, UIListLayout and UIPadding of an auto-layout node
      useContentWrapper == node.autoLayout
      cRef == nextRef(c2)
      llRef == nextRef(cRef.c)
      pRef == nextRef(llRef.c)
      content == Elem(cRef.ref, "Frame", <<"Content">>,
                      IF ~isRoot /\ hasRasterBG THEN 2 ELSE 1, 0, "content")
      layoutXml == IF ~node.autoLayout THEN NoXml
                   ELSE <<Elem(llRef.ref, "UIListLayout", <<>>, 0, 0, "layout")>> \o
                        (IF node.padded
                         THEN <<Elem(pRef.ref, "UIPadding", <<>>, 0, 0, "padding")>>
                         ELSE NoXml)
      c3 == IF ~node.autoLayout THEN c2 ELSE IF node.padded THEN pRef.c ELSE llRef.c
      childZBase == IF useContentWrapper THEN 1 ELSE IF hasRasterBG THEN 2 ELSE 1
      parentCr == LargestRadius(node.cornerRadius)
      kids == emitChildren(node, 1, isRoot, node.autoLayout, childZBase, parentCr,
                           [lines |-> NoXml, promoted |-> NoXml, maxChildZ |-> 0, c |-> c3])
      inner == IF useContentWrapper
               THEN <<content>> \o Nest(layoutXml \o kids.lines)
               ELSE kids.lines
      interactZ == IF useContentWrapper THEN 10 ELSE kids.maxChildZ + 1
      ov == IF isInteractive(node.name) /\ ~isRoot
            THEN emitInteractiveOverlay(node.name, interactZ, kids.c)
            ELSE [xml |-> NoXml, c |-> kids.c]
      lines == <<self>> \o Nest(crXml \o bgXml \o inner \o ov.xml) \o kids.promoted
      shadowRef == nextRef(ov.c)
      shadow == Elem(shadowRef.ref, "ImageLabel", <<node.name, "_Shadow">>,
                     MaxOf({0, zIndex - 1}), 0, "shadow")
  IN IF node.shadow
     THEN [xml |-> <<shadow>> \o lines, c |-> shadowRef.c]
     ELSE [xml |-> lines, c |-> ov.c]

emitNodeItems(node, zIndex, isRoot, parentHasAutoLayout, parentWidth, parentHeight, parentCornerRadius, c) ==
  IF node.isStrokeDuplicate THEN [xml |-> NoXml, c |-> c]
  ELSE LET strategy == classifyNode([type |-> node.type,
                                     isFlattened |-> IF node.isFlattened THEN "true"
                                                     ELSE "absent",
                                     children |-> Len(node.children)], "default")
       IN CASE strategy = "png" ->
                 emitPngNodeItems(node, zIndex, isRoot, parentHasAutoLayout, parentWidth,
                             parentHeight, parentCornerRadius, c)
            [] strategy = "text_dynamic" ->
                 emitDynamicTextNodeItems(node, zIndex, parentHasAutoLayout, parentWidth,
                                     parentHeight, c)
            [] OTHER ->
                 emitContainerNodeItems(node, zIndex, isRoot, parentHasAutoLayout, parentWidth,
                                   parentHeight, c)

\* Variant that goes on from the counter's value instead of resetting it.
assembleRbxmxItems_KeepCounter(m, counter) ==
  LET body == emitNodeItems(m.root, 1, TRUE, FALSE, 0, 0, 0, counter)
      screenGuiRef == nextRef(body.c)
  IN [xml |-> <<Elem(screenGuiRef.ref, "ScreenGui", <<m.root.name>>, 0, 0, "screen")>>
              \o Nest(body.xml),
      c |-> screenGuiRef.c]
\* assembleRbxmx for a manifest with a root: the counter starts at 0, the
\* body is emitted, and the ScreenGui that encloses it takes the last referent.
assembleRbxmxItems(m, counter) ==
  LET body == emitNodeItems(m.root, 1, TRUE, FALSE, 0, 0, 0, 0)
      screenGuiRef == nextRef(body.c)
  IN [xml |-> <<Elem(screenGuiRef.ref, "ScreenGui", <<m.root.name>>, 0, 0, "screen")>>
              \o Nest(body.xml),
      c |-> screenGuiRef.c]

\* The manifests: a root frame Modal of 200 x 100 with a panel of 100 x 60 at
\* (20, 10) and a footer strip; the panel's style and children vary.
BaseNode(id, name, type, x, y, w, h) ==
  [id |-> id, name |-> name, type |-> type, isFlattened |-> FALSE, children |-> <<>>,
   x |-> x, y |-> y, width |-> w, height |-> h, cornerRadius |-> RadiusNumber(0),
   clipsContent |-> FALSE, autoLayout |-> FALSE, padded |-> FALSE, hybridBg |-> FALSE,
   shadow |-> FALSE, isStrokeDuplicate |-> FALSE, stroke |-> FALSE]
PanelChildKinds == {"close_over", "close_leaf", "button_fill", "icon", "icon_over", "title",
                    "title_dup"}
PanelChild(kind) ==
  CASE kind = "close_over" ->
         [BaseNode(11, "CloseBtn", "FRAME", 90, 0 - 5, 20, 20) EXCEPT !.isFlattened = TRUE]
    [] kind = "close_leaf" -> BaseNode(13, "CloseBtn", "RECTANGLE", 70, 30, 20, 20)
    [] kind = "button_fill" ->
         [BaseNode(14, "BuyButton", "FRAME", 0, 0, 100, 60) EXCEPT !.isFlattened = TRUE]
    [] kind = "icon" -> BaseNode(15, "Icon", "RECTANGLE", 10, 10, 20, 20)
    [] kind = "icon_over" -> BaseNode(16, "Icon", "RECTANGLE", 0 - 10, 10, 20, 20)
    [] kind = "title" -> [BaseNode(17, "Title", "TEXT", 30, 5, 40, 12) EXCEPT !.stroke = TRUE]
    [] OTHER ->
         [BaseNode(18, "Title", "TEXT", 31, 6, 40, 12) EXCEPT !.isStrokeDuplicate = TRUE]
PanelChildLists ==
  {<<>>} \cup {<<PanelChild(a)>> : a \in PanelChildKinds}
         \cup {<<PanelChild(ab[1]), PanelChild(ab[2])>> :
                 ab \in {p \in PanelChildKinds \X PanelChildKinds : p[1] # p[2]}}
\* cornerRadius and clipsContent of the panel.
PanelShapes == {<<RadiusNumber(0), FALSE>>, <<RadiusNumber(0), TRUE>>,
                <<RadiusNumber(8), FALSE>>, <<RadiusNumber(8), TRUE>>,
                <<RadiusArray(4, 12, 4, 4), TRUE>>}
PanelDecors == {"plain", "hybrid", "hybrid_shadow"}
Panel(name, kids, shape, al, decor) ==
  [BaseNode(2, name, "FRAME", 20, 10, 100, 60)
     EXCEPT !.children = kids, !.cornerRadius = shape[1], !.clipsContent = shape[2],
            !.autoLayout = al, !.padded = al,
            !.hybridBg = decor # "plain", !.shadow = decor = "hybrid_shadow"]
Panels ==
  {Panel(name, kids, shape, al, decor) :
     name \in {"Panel", "BuyButton"}, kids \in PanelChildLists, shape \in PanelShapes,
     al \in BOOLEAN, decor \in PanelDecors}
PricePills ==
  {Panel("PricePill", kids, <<RadiusNumber(0), FALSE>>, FALSE, "plain") :
     kids \in PanelChildLists}
Footer == BaseNode(3, "Footer", "RECTANGLE", 0, 80, 200, 20)
AsmRoot(name, al, panel) ==
  [BaseNode(1, name, "FRAME", 0, 0, 200, 100)
     EXCEPT !.children = <<panel, Footer>>, !.cornerRadius = RadiusNumber(12),
            !.clipsContent = TRUE, !.autoLayout = al]
NoRootNode == BaseNode(0, "Modal", "FRAME", 0, 0, 0, 0)
NoManifest == [root |-> NoRootNode]
\* A free-floating root named Modal over every panel; an auto-layout root and
\* a root with a button's name over the panels with underlay and shadow.
AsmManifests ==
  {[root |-> AsmRoot("Modal", FALSE, panel)] : panel \in Panels \cup PricePills}
  \cup {[root |-> AsmRoot(kind[1], kind[2], panel)] :
          kind \in {<<"Modal", TRUE>>, <<"ShopButton", FALSE>>},
          panel \in {q \in Panels : q.name = "Panel" /\ q.shadow}}

\* The manifest after a run: emitGeometry has rewritten node.children of the
\* emitted children of the root (the nodes below them have no children).
ManifestAfter(m) ==
  [m EXCEPT !.root.children =
     [k \in 1..Len(@) |-> IF @[k].isStrokeDuplicate THEN @[k]
                          ELSE AfterGeometry(@[k], FALSE, m.root.autoLayout)]]

AsmIdle ==
  /\ asmPc = "idle" /\ asmManifest = NoManifest /\ refCounter = 0
  /\ asmOut = NoXml /\ asmPrev = NoXml

\* The CLI has parsed a manifest; a manifest may lack its root.
AsmLoad ==
  /\ asmPc = "idle"
  /\ asmManifest' \in AsmManifests \cup {NoManifest}
  /\ asmPc' = "loaded"
  /\ UNCHANGED <<refCounter, asmOut, asmPrev, pipeVars, pollVars, clsVars, geoVars, sdVars,
                 dfVars, exVars>>

\* assembleRbxmx(manifest, config), a first time or again in the same process.
AsmAssemble ==
  /\ asmPc \in {"loaded", "assembled"}
  /\ asmManifest.root # NoRootNode
  /\ LET out == assembleRbxmxItems(asmManifest, refCounter)
     IN asmOut' = out.xml /\ refCounter' = out.c
  /\ asmPrev' = asmOut
  /\ asmManifest' = ManifestAfter(asmManifest)
  /\ asmPc' = IF asmPc = "loaded" THEN "assembled" ELSE "repeated"
  /\ UNCHANGED <<pipeVars, pollVars, clsVars, geoVars, sdVars, dfVars, exVars>>

\* assembleRbxmx throws for a manifest without a root, after the reset.
AsmThrow ==
  /\ asmPc = "loaded" /\ asmManifest.root = NoRootNode
  /\ refCounter' = 0 /\ asmPc' = "threw"
  /\ UNCHANGED <<asmManifest, asmOut, asmPrev, pipeVars, pollVars, clsVars, geoVars, sdVars,
                 dfVars, exVars>>

\* main's check of the document before it is written: a referent that
\* occurs twice makes it throw.
AsmValidate ==
  /\ asmPc \in {"assembled", "repeated"}
  /\ asmPc' = IF \E i, j \in 1..Len(asmOut) : i # j /\ asmOut[i].ref = asmOut[j].ref
              THEN "invalid" ELSE "written"
  /\ UNCHANGED <<asmManifest, refCounter, asmOut, asmPrev, pipeVars, pollVars, clsVars,
                 geoVars, sdVars, dfVars, exVars>>

\* The process ends.
AsmEnd ==
  /\ asmPc \in {"written", "invalid", "threw"}
  /\ asmPc' = "idle" /\ asmManifest' = NoManifest /\ refCounter' = 0
  /\ asmOut' = NoXml /\ asmPrev' = NoXml
  /\ UNCHANGED <<pipeVars, pollVars, clsVars, geoVars, sdVars, dfVars, exVars>>

\* The added parts at rest.
AuxIdle == GeoIdle /\ SdIdle /\ DfIdle /\ ExIdle /\ AsmIdle

\* ---------------------------------------------------------- the manifests
NodeShapes ==
  {t \in [NodeIds -> [kind : {"container", "png", "text"}, fill : {NoHash, "img"},
                      raster : {NoHash, "raster_60_1080"}, resolved : {NoAsset}]] :
     /\ t[RootId].kind = "container" /\ t[RootId].raster = NoHash
     /\ t[ChildId].kind \in {"png", "text"}}

DefaultNodes ==
  [n \in NodeIds |-> [kind |-> IF n = RootId THEN "container" ELSE "text",
                      fill |-> NoHash, raster |-> NoHash, resolved |-> NoAsset]]

HashLists == UNION {[1..k -> Hashes] : k \in 0..MaxUnresolved}


\* exportedImages only matters at the declared hashes, which is where it is read.
Manifests ==
  {m \in [hasRoot : BOOLEAN, nodes : NodeShapes, unresolved : HashLists,
          exported : SUBSET Hashes] :
     /\ m.exported \subseteq Range(m.unresolved)
     /\ (~m.hasRoot => m.nodes = DefaultNodes)}

\* ------------------------------------------------------ the upload response
\* The POST response of the Open Cloud assets endpoint.
Responses == [ok : BOOLEAN, done : BOOLEAN, respAsset : BOOLEAN, path : BOOLEAN,
              direct : BOOLEAN]

\* uploadToRoblox / uploadImage, up to the poll: "fail" (throws), "success"
\* (an asset id was extracted) or "poll" (an operation path has to be polled).
PostOutcome(resp) ==
  IF ~resp.ok THEN "fail"
  ELSE IF resp.done /\ resp.respAsset THEN "success"
  ELSE IF resp.path THEN "poll"
  ELSE IF resp.direct THEN "success"
  ELSE "fail"

\* uploadToRoblox / uploadImage after the poll settled.
PollOutcome(out, directAsset) ==
  IF out = "timeout" THEN "fail"
  ELSE IF out = "asset" THEN "success"
  ELSE IF directAsset THEN "success"
  ELSE "fail"

\* ------------------------------------------------------------- the output
\* Number of <Item class="ImageLabel"> in the assembled document: a png node is
\* an ImageLabel; a container has a _BG ImageLabel when it is hybrid and resolved.
isHybrid(node) == node.kind = "container" /\ node.fill # NoHash
ImageLabelCount(t) ==
  Cardinality({n \in NodeIds : t[n].kind = "png" \/ (isHybrid(t[n]) /\ t[n].resolved # NoAsset)})
\* Number of rbxassetid://<digits> in the assembled document.
AssetIdCount(t) ==
  Cardinality({n \in NodeIds : (t[n].kind = "png" \/ isHybrid(t[n])) /\ t[n].resolved # NoAsset})

\* assembleRbxmx: throws when the manifest has no root.
\* Variant without the root check.
assembleRbxmx_NoRootCheck(m) == "document"
assembleRbxmx(m) == IF ~m.hasRoot THEN "throw" ELSE "document"

\* The image asset completeness check of main.
AssetCheckThrows(t) == ImageLabelCount(t) > 0 /\ AssetIdCount(t) = 0

\* ------------------------------------------------------------ the programs
CurrentList == IF stage = "bk" THEN BakedKeys ELSE manifest.unresolved
CurrentHash == CurrentList[idx]

Abort(e) == pc' = "aborted" /\ err' = e

StartRun(p, f, st, cache, nextPc, e) ==
  /\ pc = "idle" /\ runs < MaxRuns
  /\ runs' = runs + 1
  /\ prog' = p /\ flag' = f /\ stage' = st /\ memCache' = cache /\ pc' = nextPc /\ err' = e
  /\ tree' = manifest.nodes
  /\ idx' = 1 /\ resolvedCnt' = 0 /\ direct' = FALSE /\ wrote' = FALSE
  /\ inflight' = 0 /\ gap' = "none" /\ startGap' = "none"
  /\ failStage' = "none" /\ uploadAfterFail' = FALSE
  /\ UNCHANGED <<cacheFile, nextAssetId, uploadsByHash, manifest, pollVars, clsVars, auxVars>>

\* processManifestAsync / processManifestSync up to the assembly.
PcAfterParse(f) == IF f /\ Len(manifest.unresolved) > 0 THEN "resolve" ELSE "assemble"

\* The CLI: main of the v2 driver.
RunCli ==
  \E f \in BOOLEAN : StartRun("cli", f, "none", EmptyEntries, PcAfterParse(f), "")

\* _upload_all.js main: parse the manifest, loadCache, enter the upload loop.
RunUploadAll ==
  StartRun("upload_all", TRUE, "ua", loadImageCache(cacheFile), "loop", "")

\* _upload_baked.js main: JSON.parse(readFileSync(CACHE_PATH)) without a guard.
RunBaked ==
  IF cacheFile.status = "ok"
  THEN StartRun("baked", FALSE, "bk", cacheFile.entries, "loop", "")
  ELSE StartRun("baked", FALSE, "none", EmptyEntries, "aborted", "fatal")

\* resolveImages up to its loop: backfill, getConfig, loadImageCache.
ResolveBegin ==
  /\ pc = "resolve"
  /\ \E configOk \in BOOLEAN :
       IF backfillThrows(manifest)
       THEN Abort("type_error") /\ UNCHANGED <<stage, tree, memCache, idx, resolvedCnt, gap>>
       ELSE /\ tree' = IF manifest.hasRoot
                       THEN backfillRasterHashes(tree, manifest.unresolved) ELSE tree
            /\ IF ~configOk
               THEN Abort("no_config") /\ UNCHANGED <<stage, memCache, idx, resolvedCnt, gap>>
               ELSE /\ stage' = "ri" /\ memCache' = loadImageCache(cacheFile)
                    /\ idx' = 1 /\ resolvedCnt' = 0 /\ gap' = "none"
                    /\ pc' = "loop" /\ UNCHANGED err
  /\ UNCHANGED <<cacheFile, nextAssetId, uploadsByHash, runs, manifest, prog, flag, direct,
                 wrote, inflight, startGap, failStage, uploadAfterFail, pollVars, clsVars, auxVars>>

InLoop == pc = "loop" /\ idx <= Len(CurrentList)

\* resolveImages, cache hit: applyResolvedId(manifest.root, ...) and continue.
riOnCached ==
  IF ~manifest.hasRoot
  THEN Abort("type_error") /\ UNCHANGED <<tree, idx>>
  ELSE /\ tree' = applyResolvedId(tree, CurrentHash, memCache[CurrentHash])
       /\ idx' = idx + 1 /\ UNCHANGED <<pc, err>>

\* _upload_all.js, cache hit: cached++ and continue.
uaOnCached == idx' = idx + 1 /\ UNCHANGED <<tree, pc, err>>

LoopCached ==
  /\ InLoop /\ stage \in {"ri", "ua"} /\ IsCached(memCache, CurrentHash)
  /\ IF stage = "ri" THEN riOnCached ELSE uaOnCached
  /\ UNCHANGED <<cacheFile, nextAssetId, uploadsByHash, runs, manifest, prog, stage, flag,
                 memCache, resolvedCnt, direct, wrote, inflight, gap, startGap, failStage,
                 uploadAfterFail, pollVars, clsVars, auxVars>>

\* resolveImages, no cache entry and no exported data: throw FAIL-FAST.
\* Variant that skips the hash instead of throwing.
riOnMissing_Continue == idx' = idx + 1 /\ UNCHANGED <<pc, err>>
riOnMissing == Abort("missing_data") /\ UNCHANGED idx

\* _upload_all.js, no data: failed++ and continue.
uaOnMissing == idx' = idx + 1 /\ UNCHANGED <<pc, err>>

LoopMissing ==
  /\ InLoop /\ stage \in {"ri", "ua"} /\ ~IsCached(memCache, CurrentHash)
  /\ CurrentHash \notin manifest.exported
  /\ IF stage = "ri" THEN riOnMissing ELSE uaOnMissing
  /\ UNCHANGED <<cacheFile, nextAssetId, uploadsByHash, runs, manifest, prog, stage, flag,
                 tree, memCache, resolvedCnt, direct, wrote, inflight, gap, startGap,
                 failStage, uploadAfterFail, pollVars, clsVars, auxVars>>

\* await uploadToRoblox(...): the loop is suspended until the upload settles.
\* Variant without the await: the loop goes on while the upload is pending.
PcAfterUploadCall_NoAwait == "loop"
PcAfterUploadCall == "posting"

\* The upload of the current hash starts (the POST is sent).
UploadStart ==
  /\ InLoop
  /\ \/ stage = "bk"
     \/ /\ stage \in {"ri", "ua"} /\ ~IsCached(memCache, CurrentHash)
        /\ CurrentHash \in manifest.exported
  /\ pc' = PcAfterUploadCall
  /\ inflight' = inflight + 1
  /\ startGap' = gap
  /\ uploadAfterFail' = (uploadAfterFail \/ failStage # "none")
  /\ UNCHANGED <<cacheFile, nextAssetId, uploadsByHash, runs, manifest, prog, stage, err,
                 flag, tree, memCache, idx, resolvedCnt, direct, wrote, gap, failStage,
                 pollVars, clsVars, auxVars>>

\* resolveImages, the try block after the upload returned an asset id.
riUploadSucceeded(h, id) ==
  /\ memCache' = [memCache EXCEPT ![h] = id]
  /\ UNCHANGED <<cacheFile, failStage>>
  /\ IF ~manifest.hasRoot
     THEN Abort("upload_failed") /\ UNCHANGED <<tree, idx, resolvedCnt>>
     ELSE /\ tree' = applyResolvedId(tree, h, id)
          /\ resolvedCnt' = resolvedCnt + 1
          /\ IF resolvedCnt + 1 < Len(manifest.unresolved)
             THEN pc' = "delay" /\ UNCHANGED idx
             ELSE pc' = "loop" /\ idx' = idx + 1
          /\ UNCHANGED err

\* resolveImages, the catch block: throw FAIL-FAST.
\* Variant that continues with the next hash.
riUploadFailed_Continue ==
  /\ failStage' = "ri" /\ pc' = "loop" /\ idx' = idx + 1
  /\ UNCHANGED <<cacheFile, tree, memCache, err, resolvedCnt>>
riUploadFailed ==
  /\ Abort("upload_failed") /\ failStage' = "ri"
  /\ UNCHANGED <<cacheFile, tree, memCache, idx, resolvedCnt>>

\* _upload_all.js, after uploadImage returned: cache entry, saveCache, delay.
uaUploadSucceeded(h, id) ==
  /\ memCache' = [memCache EXCEPT ![h] = id]
  /\ cacheFile' = saveImageCache([memCache EXCEPT ![h] = id])
  /\ resolvedCnt' = resolvedCnt + 1
  /\ IF idx < Len(manifest.unresolved)
     THEN pc' = "delay" /\ UNCHANGED idx
     ELSE pc' = "loop" /\ idx' = idx + 1
  /\ UNCHANGED <<tree, err, failStage>>

\* _upload_all.js, the catch block: failed++, continue with the next hash.
uaUploadFailed ==
  /\ failStage' = "ua" /\ pc' = "loop" /\ idx' = idx + 1
  /\ UNCHANGED <<cacheFile, tree, memCache, err, resolvedCnt>>

\* The upload settled with a fresh asset id.
UploadSucceeded ==
  /\ nextAssetId' = nextAssetId + 1
  /\ uploadsByHash' = [uploadsByHash EXCEPT ![CurrentHash] = @ + 1]
  /\ IF stage = "ri" THEN riUploadSucceeded(CurrentHash, nextAssetId)
                     ELSE uaUploadSucceeded(CurrentHash, nextAssetId)

\* The upload settled with an exception.
UploadFailed ==
  /\ UNCHANGED <<nextAssetId, uploadsByHash>>
  /\ IF stage = "ri" THEN riUploadFailed ELSE uaUploadFailed

Settled == inflight' = inflight - 1 /\ gap' = "finished" /\ direct' = FALSE

\* _upload_baked.js: uploadImage throws on !resp.ok, else pollOp(op.path) follows.
bkPosted(resp) ==
  IF ~resp.ok
  THEN Abort("fatal") /\ Settled
  ELSE pc' = "polling" /\ UNCHANGED <<err, inflight, gap, direct>>

\* The POST response arrives. The remote store accepts an upload only while it
\* has asset ids left.
PostResponse ==
  /\ pc = "posting"
  /\ \E resp \in Responses :
       /\ resp.ok => nextAssetId <= MaxAssets
       /\ IF stage = "bk"
          THEN /\ bkPosted(resp)
               /\ UNCHANGED <<cacheFile, nextAssetId, uploadsByHash, tree, memCache, idx,
                              resolvedCnt, failStage>>
          ELSE CASE PostOutcome(resp) = "success" -> UploadSucceeded /\ Settled
                 [] PostOutcome(resp) = "fail" -> UploadFailed /\ Settled
                 [] OTHER -> /\ pc' = "polling" /\ direct' = resp.direct
                             /\ UNCHANGED <<cacheFile, nextAssetId, uploadsByHash, tree,
                                            memCache, idx, resolvedCnt, failStage, err,
                                            inflight, gap>>
  /\ UNCHANGED <<runs, manifest, prog, stage, flag, wrote, startGap, uploadAfterFail,
                 pollVars, clsVars, auxVars>>

\* _upload_baked.js after pollOp: the entry of the fixed key is assigned.
bkPolled(out) ==
  IF out \in {"timeout", "fetch_error"}
  THEN Abort("fatal") /\ UNCHANGED <<memCache, nextAssetId, idx>>
  ELSE /\ pc' = "loop" /\ idx' = idx + 1 /\ UNCHANGED err
       /\ IF out = "asset"
          THEN /\ memCache' = [memCache EXCEPT ![CurrentHash] = nextAssetId]
               /\ nextAssetId' = nextAssetId + 1
          ELSE UNCHANGED <<memCache, nextAssetId>>

\* The poll of the operation settles: with an asset id, done without one, or
\* by exhausting its attempts (for pollOp also by a rejected fetch).
PollResult ==
  /\ pc = "polling"
  /\ \E out \in {"asset", "noasset", "timeout", "fetch_error"} :
       /\ out = "fetch_error" => stage = "bk"
       /\ IF stage = "bk"
          THEN /\ bkPolled(out)
               /\ UNCHANGED <<cacheFile, uploadsByHash, tree, resolvedCnt, failStage>>
          ELSE IF PollOutcome(out, direct) = "success"
               THEN UploadSucceeded ELSE UploadFailed
  /\ Settled
  /\ UNCHANGED <<runs, manifest, prog, stage, flag, wrote, startGap, uploadAfterFail,
                 pollVars, clsVars, auxVars>>

\* await sleep(RATE_LIMIT_DELAY_MS) / sleep(RATE_LIMIT_MS) returns.
DelayElapsed ==
  /\ pc = "delay"
  /\ pc' = "loop" /\ idx' = idx + 1 /\ gap' = "delayed"
  /\ UNCHANGED <<cacheFile, nextAssetId, uploadsByHash, runs, manifest, prog, stage, err,
                 flag, tree, memCache, resolvedCnt, direct, wrote, inflight, startGap,
                 failStage, uploadAfterFail, pollVars, clsVars, auxVars>>

\* The loop is over. resolveImages saves the cache and returns to the assembly;
\* _upload_all.js goes on to processManifestAsync; _upload_baked.js writes the
\* cache file and ends.
LoopEnd ==
  /\ pc = "loop" /\ idx > Len(CurrentList)
  /\ CASE stage = "ri" -> cacheFile' = saveImageCache(memCache) /\ pc' = "assemble"
       [] stage = "ua" -> UNCHANGED cacheFile /\ pc' = PcAfterParse(TRUE)
       [] OTHER -> cacheFile' = saveImageCache(memCache) /\ pc' = "done"
  /\ UNCHANGED <<nextAssetId, uploadsByHash, runs, manifest, prog, stage, err, flag, tree,
                 memCache, idx, resolvedCnt, direct, wrote, inflight, gap, startGap,
                 failStage, uploadAfterFail, pollVars, clsVars, auxVars>>

\* assembleRbxmx, then (CLI only) the safety checks of main, then writeFileSync.
Assemble ==
  /\ pc = "assemble"
  /\ IF assembleRbxmx(manifest) = "throw"
     THEN Abort("invalid_root") /\ UNCHANGED wrote
     ELSE IF prog = "cli" /\ AssetCheckThrows(tree)
          THEN Abort("asset_check") /\ UNCHANGED wrote
          ELSE pc' = "done" /\ wrote' = TRUE /\ UNCHANGED err
  /\ UNCHANGED <<cacheFile, nextAssetId, uploadsByHash, runs, manifest, prog, stage, flag,
                 tree, memCache, idx, resolvedCnt, direct, inflight, gap, startGap,
                 failStage, uploadAfterFail, pollVars, clsVars, auxVars>>

\* The process exits.
RunEnd ==
  /\ pc \in {"done", "aborted"}
  /\ pc' = "idle" /\ prog' = "none" /\ stage' = "none" /\ err' = "" /\ flag' = FALSE
  /\ tree' = manifest.nodes /\ memCache' = EmptyEntries /\ idx' = 1 /\ resolvedCnt' = 0
  /\ direct' = FALSE /\ wrote' = FALSE /\ inflight' = 0 /\ gap' = "none"
  /\ startGap' = "none" /\ failStage' = "none" /\ uploadAfterFail' = FALSE
  /\ UNCHANGED <<cacheFile, nextAssetId, uploadsByHash, runs, manifest, pollVars, clsVars, auxVars>>

Init ==
  /\ cacheFile \in {[status |-> s, entries |-> EmptyEntries] : s \in {"absent", "corrupt"}}
  /\ nextAssetId = 1
  /\ uploadsByHash = [h \in AllKeys |-> 0]
  /\ runs = 0
  /\ manifest \in Manifests
  /\ prog = "none" /\ stage = "none" /\ pc = "idle" /\ err = "" /\ flag = FALSE
  /\ tree = manifest.nodes /\ memCache = EmptyEntries /\ idx = 1 /\ resolvedCnt = 0
  /\ direct = FALSE /\ wrote = FALSE /\ inflight = 0 /\ gap = "none" /\ startGap = "none"
  /\ failStage = "none" /\ uploadAfterFail = FALSE
  /\ PollIdle /\ ClsIdle /\ AuxIdle

Next ==
  \/ RunCli \/ RunUploadAll \/ RunBaked
  \/ ResolveBegin \/ LoopCached \/ LoopMissing \/ UploadStart \/ PostResponse
  \/ PollResult \/ DelayElapsed \/ LoopEnd \/ Assemble \/ RunEnd

Spec == Init /\ [][Next]_vars

\* The pipeline at rest, for the specifications of the isolated parts.
PipeIdle ==
  /\ cacheFile = [status |-> "absent", entries |-> EmptyEntries]
  /\ nextAssetId = 1
  /\ uploadsByHash = [h \in AllKeys |-> 0]
  /\ runs = 0
  /\ manifest = [hasRoot |-> TRUE, nodes |-> DefaultNodes, unresolved |-> <<>>,
                 exported |-> {}]
  /\ prog = "none" /\ stage = "none" /\ pc = "idle" /\ err = "" /\ flag = FALSE
  /\ tree = DefaultNodes /\ memCache = EmptyEntries /\ idx = 1 /\ resolvedCnt = 0
  /\ direct = FALSE /\ wrote = FALSE /\ inflight = 0 /\ gap = "none" /\ startGap = "none"
  /\ failStage = "none" /\ uploadAfterFail = FALSE

\* Polling alone. Every fetch settles and every timer fires.
PollInit == PipeIdle /\ PollIdle /\ ClsIdle /\ AuxIdle
PollNext == PollStart \/ PollFetch \/ PollSleep \/ PollReturn
SpecPoll == PollInit /\ [][PollNext]_vars /\ WF_vars(PollFetch) /\ WF_vars(PollSleep)

\* Classification alone.
ClsInit == PipeIdle /\ PollIdle /\ ClsIdle /\ AuxIdle
ClsNext == ClsPick \/ ClsCall \/ ClsCallElsewhere \/ ClsReset
SpecClassify == ClsInit /\ [][ClsNext]_vars

\* Geometry emission alone.
GeoInit == PipeIdle /\ PollIdle /\ ClsIdle /\ AuxIdle
GeoNext == EmitRoot \/ EmitChild \/ EmitPromoted \/ GeoReset
SpecGeometry == GeoInit /\ [][GeoNext]_vars

\* Text-stroke deduplication alone.
SdInit == PipeIdle /\ PollIdle /\ ClsIdle /\ AuxIdle
SdNext ==
  \/ SdLoad \/ SdDedup \/ SdSkipDedup \/ SdAssemble \/ SdBindings \/ SdDiff \/ SdSnapshot
  \/ SdReset
SpecDedup == SdInit /\ [][SdNext]_vars

\* The diff engine and the snapshot over successive runs.
DfInit == PipeIdle /\ PollIdle /\ ClsIdle /\ AuxIdle
DfNext == DfRun \/ DfCompute \/ DfSave \/ DfLoseSnapshot \/ DfEnd
SpecDiff == DfInit /\ [][DfNext]_vars

\* The extraction of a layer and the resolution of its manifest.
ExInit == PipeIdle /\ PollIdle /\ ClsIdle /\ AuxIdle
ExNext == ExSerialize \/ ExRasterize \/ ExNothingToResolve \/ ExResolveOne \/ ExSaveCache \/ ExEnd
SpecExtract == ExInit /\ [][ExNext]_vars

AsmInit == PipeIdle /\ PollIdle /\ ClsIdle /\ AuxIdle
AsmNext == AsmLoad \/ AsmAssemble \/ AsmThrow \/ AsmValidate \/ AsmEnd
SpecAssemble == AsmInit /\ [][AsmNext]_vars

\* ======================================================================
\* Properties
\* ======================================================================
\* What the cache file holds for a key (nothing when absent or unparsable).
EntryOnDisk(h) == IF cacheFile.status = "ok" THEN cacheFile.entries[h] ELSE NoAsset
EntryOnDiskNext(h) == IF cacheFile'.status = "ok" THEN cacheFile'.entries[h] ELSE NoAsset

DeclaredHashes == Range(manifest.unresolved)
Carries(node, h) == node.fill = h \/ node.raster = h

\* The run reads the manifest / the run performs image resolution.
ReadsManifest == prog \in {"cli", "upload_all"}
Resolving == (prog = "cli" /\ flag) \/ prog = "upload_all"

\* Some declared hash has neither a cache entry nor exported content.
MissingDeclared ==
  \E h \in DeclaredHashes : h \notin manifest.exported /\ EntryOnDisk(h) = NoAsset

\* Every node that carries a declared hash has a resolved asset id.
FullyResolved ==
  \A h \in DeclaredHashes : \A n \in NodeIds :
     Carries(tree[n], h) => tree[n].resolved # NoAsset

\* resolveImages has returned in this run.
ResolutionDone == stage = "ri" /\ pc \in {"assemble", "done"}

\* ---------------------------------------------------------------- C1
\* C1: over any sequence of runs sharing the persisted cache, each distinct
\* content hash is uploaded at most once. Counted on the uploads that returned
\* an asset id, which are fewer than the upload calls, and for well-formed
\* manifests only.
C1_AtMostOneUploadPerHash ==
  manifest.hasRoot => \A h \in AllKeys : uploadsByHash[h] <= 1

\* ---------------------------------------------------------------- C2
\* C2 as stated: a run over a manifest in which a declared hash has no cache
\* entry and no exported content never completes and writes no output.
C2_MissingContentNeverWrites ==
  (ReadsManifest /\ MissingDeclared) => (~wrote /\ pc # "done")

\* C2: in a run that resolves images (the CLI with --resolve-images, or
\* _upload_all.js), a declared hash with no cache entry and no exported
\* content makes the run throw before the assembly: the assembly is never
\* reached and no output file is written.
C2_ResolvingRunFailsFast ==
  (Resolving /\ MissingDeclared) => (~wrote /\ pc \notin {"assemble", "done"})

C2_Witness ==
  /\ Resolving /\ MissingDeclared /\ pc = "aborted" /\ err = "missing_data" /\ ~wrote

\* ---------------------------------------------------------------- C3
\* C3 as stated: once an upload has failed, the run is aborted, no further
\* upload is started and no output is written.
C3_AnyFailureAborts ==
  failStage # "none" => (pc = "aborted" /\ ~uploadAfterFail /\ ~wrote)

\* C3: an upload failure inside resolveImages aborts the run at once, with no
\* later upload and no output; an upload that follows a failed upload occurs
\* only in a run of _upload_all.js, whose own loop continues with the
\* remaining hashes; and a resolving run writes its output only for a fully
\* resolved tree.
C3_FailFastInResolveImages ==
  /\ failStage = "ri" => (pc = "aborted" /\ ~wrote)
  /\ uploadAfterFail => prog = "upload_all"
  /\ (Resolving /\ wrote) => FullyResolved

C3_Witness ==
  /\ prog = "cli" /\ failStage = "ri" /\ pc = "aborted" /\ err = "upload_failed"
  /\ resolvedCnt >= 1 /\ idx = 2 /\ ~wrote

\* ---------------------------------------------------------------- C4
\* C4: whenever the resolution of the next hash begins, or the run has
\* aborted, every cache entry made by an upload of this run is already in the
\* cache file (stated for well-formed manifests).
C4_SavedBeforeNextHash ==
  (manifest.hasRoot /\ stage \in {"ri", "ua"} /\ (InLoop \/ pc = "aborted")) =>
     \A h \in AllKeys : memCache[h] # NoAsset => EntryOnDisk(h) = memCache[h]

\* ---------------------------------------------------------------- C5
\* C5 as stated: after resolution, any two nodes that carry the same declared
\* hash hold the same asset id, the one of that hash's cache entry.
C5_SameHashSameAsset ==
  ResolutionDone =>
     \A h \in DeclaredHashes : \A n1, n2 \in NodeIds :
        (Carries(tree[n1], h) /\ Carries(tree[n2], h)) =>
           (tree[n1].resolved = tree[n2].resolved /\ tree[n1].resolved = memCache[h])

LastCarried(n) ==
  LET S == {i \in 1..Len(manifest.unresolved) : Carries(tree[n], manifest.unresolved[i])}
  IN IF S = {} THEN 0 ELSE CHOOSE i \in S : \A j \in S : j <= i

\* C5: after resolution every node holds the asset id of the cache entry of
\* the last hash of the declared list that it carries (as image fill or as
\* raster hash), and no asset id if it carries none; so two nodes whose last
\* carried hash is the same hold the same asset id.
C5_LastDeclaredHashWins ==
  ResolutionDone =>
     \A n \in NodeIds :
        IF LastCarried(n) = 0
        THEN tree[n].resolved = NoAsset
        ELSE /\ tree[n].resolved = memCache[manifest.unresolved[LastCarried(n)]]
             /\ tree[n].resolved # NoAsset

C5_Witness ==
  /\ ResolutionDone
  /\ Carries(tree[RootId], "img") /\ Carries(tree[ChildId], "img")
  /\ tree[RootId].resolved = memCache["img"]
  /\ tree[ChildId].resolved = memCache["raster_60_1080"]
  /\ tree[ChildId].resolved # tree[RootId].resolved

\* ---------------------------------------------------------------- C6
\* C6 as stated: no step ever changes or drops the asset id of an existing
\* cache entry.
C6_EntriesNeverChange ==
  [][\A h \in AllKeys : EntryOnDisk(h) # NoAsset => EntryOnDiskNext(h) = EntryOnDisk(h)]_vars

BakedKeySet == {BakedKeys[i] : i \in 1..Len(BakedKeys)}

\* C6: resolveImages and _upload_all.js never change or drop an existing
\* cache entry, they only add entries under hashes that had none;
\* _upload_baked.js changes no entry other than those of its two fixed keys.
C6_OnlyBakedOverwrites ==
  [][\A h \in AllKeys :
       (EntryOnDisk(h) # NoAsset /\ (prog # "baked" \/ h \notin BakedKeySet))
          => EntryOnDiskNext(h) = EntryOnDisk(h)]_vars

C6_Witness ==
  /\ prog = "upload_all" /\ stage = "ua"
  /\ \E h1, h2 \in Hashes : h1 # h2 /\ EntryOnDisk(h1) = 1 /\ EntryOnDisk(h2) = 2

\* ---------------------------------------------------------------- C7
\* C7: a run over a manifest without a root never completes and never writes
\* an output file.
C7_NoRootNoOutput ==
  ~manifest.hasRoot => (~wrote /\ (ReadsManifest => pc # "done"))

C7_Witness ==
  /\ ~manifest.hasRoot /\ ReadsManifest /\ pc = "aborted" /\ err = "invalid_root" /\ ~wrote

\* ---------------------------------------------------------------- C8
PollActive == pollPc \in {"fetch", "sleep"}
PollEnded == pollPc \in {"returned", "timeout", "threw"}

PollSafe ==
  pollWho # "none" =>
    /\ pollCount <= maxAttempts(pollWho)
    /\ pollSawDone <=> pollPc = "returned"
    /\ pollPc = "timeout" => pollCount = maxAttempts(pollWho)
    /\ PollActive => pollI < maxAttempts(pollWho)

\* C8: polling always terminates. It never sends more polls than the maximum
\* attempt count, it returns at the first poll that reports completion, it
\* raises the timeout exactly after the maximum count of polls without
\* completion, and every started poll loop ends.
C8_PollingTerminates == []PollSafe /\ (PollActive ~> PollEnded)

C8_Witness ==
  /\ pollWho = "images" /\ pollPc = "timeout" /\ pollCount = ImagesMaxAttempts
  /\ ~pollSawDone

C10_ClassifyPureTotal ==
  clsPc = "called" =>
    /\ clsResult \in {"png", "text_dynamic", "container"}
    /\ clsPrev.result # "none" => clsPrev.result = clsResult

C10_Witness ==
  /\ clsPc = "called" /\ clsPrev.result = "png" /\ clsResult = "png"
  /\ clsNode.children = ChildrenAbsent /\ clsNode.type = "FRAME"
  /\ clsPrev.ctx # clsCtx /\ clsPrev.config # clsConfig

\* --------------------------------------------------------------- C11
\* C11: a node that carries the flatten mark (_isFlattened, set first by the
\* extraction for a [Flatten]-tagged node) is classified png (RASTER),
\* whatever its type and whether or not it has children.
C11_FlattenAlwaysRaster ==
  (clsPc = "called" /\ clsNode.isFlattened = "true") => clsResult = "png"

\* --------------------------------------------------------------- C12
\* An element was emitted for a child of a container with auto layout.
FlowChildEmitted ==
  geoPc = "emitted" /\ geoCall.parentHasAutoLayout /\ ~geoCall.isRoot /\ geoOut.class # ""

\* C12: for every emitted child of a flow (auto layout) container, of any
\* node kind including text, whose sizing mode on an axis is FILL, the emitted
\* Size has scale 1 and offset 0 on that axis.
C12_FillGivesScaleOne ==
  FlowChildEmitted =>
    /\ geoNode.layoutSizingHorizontal = "FILL" =>
         (FracEq(geoOut.size.xs, FracOne) /\ geoOut.size.xo = 0)
    /\ geoNode.layoutSizingVertical = "FILL" =>
         (FracEq(geoOut.size.ys, FracOne) /\ geoOut.size.yo = 0)

\* --------------------------------------------------------------- C13
\* C13: the root, whatever its kind and its constraints, is emitted with
\* Position 0.5/0.5 (no pixel offset), AnchorPoint 0.5/0.5 and a Size of scale
\* 0 whose offsets are the node's own width and height (rounded to pixels).
C13_RootCentered ==
  (geoPc = "emitted" /\ geoCall.isRoot /\ geoOut.class # "") =>
    /\ FracEq(geoOut.pos.xs, FracHalf) /\ FracEq(geoOut.pos.ys, FracHalf)
    /\ geoOut.pos.xo = 0 /\ geoOut.pos.yo = 0
    /\ geoOut.anchor.present
    /\ FracEq(geoOut.anchor.x, FracHalf) /\ FracEq(geoOut.anchor.y, FracHalf)
    /\ FracEq(geoOut.size.xs, FracZero) /\ FracEq(geoOut.size.ys, FracZero)
    /\ geoOut.size.xo = RoundH(geoNode.w2) /\ geoOut.size.yo = RoundH(geoNode.h2)

\* --------------------------------------------------------------- C14
\* The TEXT children with the content and font of the scenario.
PlayTexts(children) == SelectSeq(children, LAMBDA c : c.type = "TEXT" /\ c.characters = "PLAY")
CopiesIn(children) == SelectSeq(PlayTexts(children), LAMBDA c : ~c.gradient)
GradientsIn(children) == SelectSeq(PlayTexts(children), LAMBDA c : c.gradient)

\* 9 sibling TEXT nodes with identical content and font: 8 of them within 3 px
\* of each other, and 1 with a gradient fill at 20 px from the cluster (20 px
\* from one of the copies and at least 17 px from each).
NineTextScenario ==
  LET copies == CopiesIn(sdInput)
      grads == GradientsIn(sdInput)
  IN /\ Len(copies) = 8 /\ Len(grads) = 1
     /\ \A i, j \in 1..Len(copies) :
          Abs(copies[i].x2 - copies[j].x2) <= 6 /\ Abs(copies[i].y2 - copies[j].y2) <= 6
     /\ \E i \in 1..Len(copies) :
          Abs(grads[1].x2 - copies[i].x2) = 40 \/ Abs(grads[1].y2 - copies[i].y2) = 40
     /\ \A i \in 1..Len(copies) :
          Abs(grads[1].x2 - copies[i].x2) >= 34 \/ Abs(grads[1].y2 - copies[i].y2) >= 34

\* Larger axis spread of the 8 copies, in half pixels.
ScenarioSpread2 ==
  LET copies == CopiesIn(sdInput)
      sx == Spread({copies[i].x2 : i \in 1..Len(copies)})
      sy == Spread({copies[i].y2 : i \in 1..Len(copies)})
  IN IF sx > sy THEN sx ELSE sy

\* C14: in the scenario of 9 sibling TEXT nodes the resolver leaves exactly
\* one of them among the children, the gradient outlier, flags the 8 others as
\* stroke duplicates, and gives the survivor the inferred stroke thickness
\* ceil(spread / 2), spread being the larger axis spread of the core, and 2
\* when that spread is zero.
C14_NineTextsCollapse ==
  (sdPc = "deduped" /\ NineTextScenario) =>
    LET left == PlayTexts(sdChildren)
    IN /\ Len(left) = 1
       /\ left[1].id = GradientsIn(sdInput)[1].id /\ left[1].gradient
       /\ ~left[1].isStrokeDuplicate
       /\ sdFlagged = {CopiesIn(sdInput)[i].id : i \in 1..8}
       /\ left[1].inferredStrokeThickness =
            IF ScenarioSpread2 = 0 THEN 2 ELSE CeilDiv(ScenarioSpread2, 4)

C14_Witness ==
  /\ sdPc = "deduped" /\ NineTextScenario /\ ScenarioSpread2 = 5
  /\ sdInput[1].gradient /\ Len(sdInput) = 10
  /\ Len(sdChildren) = 2 /\ sdChildren[1].id = 9
  /\ sdChildren[1].inferredStrokeThickness = 2
  /\ sdChildren[1].inferredStrokeColor = "black"
  /\ Cardinality(sdFlagged) = 8

\* --------------------------------------------------------------- C15
\* C15: a node that the resolver flagged as stroke duplicate is never emitted
\* and is never walked by a pass that runs after the resolver: asset
\* resolution, assembly, binding generation, diff, snapshot generation.
C15_DuplicatesExcluded ==
  \A id \in sdFlagged :
    /\ id \notin sdEmitted
    /\ \A p \in Passes : id \notin sdSeen[p]

\* --------------------------------------------------------------- C16
TreeIds(t) == {t.root.id} \cup IdsOf(t.children)
InHowMany(id, d) ==
  Cardinality({k \in {"changed", "unchanged", "added"} :
                 id \in (CASE k = "changed" -> d.changed [] k = "unchanged" -> d.unchanged
                           [] OTHER -> d.added)})

\* C16: for any current tree and any previous snapshot the sets changed,
\* unchanged, added and removed are pairwise disjoint, every node id of the
\* current tree lies in exactly one of changed, unchanged, added, and removed
\* holds exactly the snapshot ids that are absent from the current tree.
C16_DiffPartitionsTree ==
  dfPc = "diffed" =>
    /\ dfResult.changed \cap dfResult.unchanged = {}
    /\ dfResult.changed \cap dfResult.added = {}
    /\ dfResult.unchanged \cap dfResult.added = {}
    /\ dfResult.removed \cap (dfResult.changed \cup dfResult.unchanged \cup dfResult.added) = {}
    /\ \A id \in TreeIds(dfTree) : InHowMany(id, dfResult) = 1
    /\ dfResult.removed = (DOMAIN dfSnapshot.entries) \ TreeIds(dfTree)

\* --------------------------------------------------------------- C17
\* The example: current tree {A, B}, snapshot {A with A's current hash, C}.
DiffExample ==
  /\ dfPc = "diffed" /\ dfSnapshot.status = "ok"
  /\ TreeIds(dfTree) = {"A", "B"} /\ dfTree.root.visible /\ dfTree.children[1].visible
  /\ DOMAIN dfSnapshot.entries = {"A", "C"}
  /\ dfSnapshot.entries["A"].hash = computeNodeHash(dfTree.root, dfTree.children)

\* C17: the reuse map has an entry for a node id exactly if the id is in
\* unchanged, and the entry is the asset id that the previous snapshot records
\* for the id; in the example (current A and B, snapshot A with the same hash
\* and C) unchanged = {A}, added = {B}, removed = {C}, changed = {} and the
\* reuse map holds A's previous asset id only.
C17_ReuseMapIsUnchanged ==
  dfPc = "diffed" =>
    /\ DOMAIN dfResult.reuseMap = dfResult.unchanged
    /\ \A id \in dfResult.unchanged :
         dfResult.reuseMap[id] = dfSnapshot.entries[id].assetId
    /\ DiffExample =>
         /\ dfResult.unchanged = {"A"} /\ dfResult.added = {"B"}
         /\ dfResult.removed = {"C"} /\ dfResult.changed = {}
         /\ DOMAIN dfResult.reuseMap = {"A"}
         /\ dfResult.reuseMap["A"] = dfSnapshot.entries["A"].assetId

C17_Witness ==
  /\ DiffExample
  /\ dfResult.unchanged = {"A"} /\ dfResult.added = {"B"} /\ dfResult.removed = {"C"}
  /\ dfResult.reuseMap["A"] = 11

\* --------------------------------------------------------------- C18
\* C18: when the previous manifest does not exist (or cannot be parsed), the
\* diff is still produced: every node of the current tree is added, changed,
\* unchanged and removed are empty, and so is the reuse map.
C18_NoSnapshotAllAdded ==
  (dfPc = "diffed" /\ dfSnapshot.status # "ok") =>
    /\ dfResult.added = TreeIds(dfTree)
    /\ dfResult.changed = {} /\ dfResult.unchanged = {} /\ dfResult.removed = {}
    /\ DOMAIN dfResult.reuseMap = {}

C18_Witness ==
  /\ dfPc = "diffed" /\ dfSnapshot.status = "absent"
  /\ dfResult.added = {"A", "B", "C"} /\ ~dfTree.children[1].visible
  /\ dfResult.unchanged = {}

\* --------------------------------------------------------------- C19
\* A container with three leaf image nodes of distinct hashes.
ScenarioTree ==
  [root |-> DfNode("A", TRUE, 200),
   children |-> <<DfNode("B", TRUE, 40), DfNode("C", TRUE, 60), DfNode("D", TRUE, 80)>>]

\* C19: when the pipeline runs on the scenario tree a second time, with the
\* cache and the snapshot that a first run on the same tree left, the second
\* run uploads nothing and its diff has all 4 nodes unchanged.
C19_SecondRunAllUnchanged ==
  (dfPc = "diffed" /\ dfTree = ScenarioTree /\ dfSavedFrom = ScenarioTree) =>
    /\ dfUploads = 0
    /\ dfResult.unchanged = {"A", "B", "C", "D"}

\* C20: a leaf node with exactly one visible fill, that fill a solid colour,
\* no visible stroke and no flatten tag never has a hash among the
\* unresolved content hashes and is never looked up or uploaded by the
\* asset cache.
SolidLeaf ==
  /\ exIr # NoIr
  /\ ~exIr.hasChildren
  /\ Len(exIr.visibleFills) = 1 /\ exIr.visibleFills[1] = "SOLID"
  /\ ~exIr.hasVisibleStroke
  /\ ~exIr.isFlattenTag
C20_SolidLeafNeverResolved ==
  SolidLeaf =>
    /\ RasterHashOf(exIr.id) \notin Range(exUnresolved)
    /\ RasterHashOf(exIr.id) \notin Range(exLooked)
    /\ RasterHashOf(exIr.id) \notin exUploaded

\* The members of the input sibling list that are TEXT nodes with the content,
\* font size and font family of c.
SameTexts(c) ==
  SelectSeq(sdInput, LAMBDA d : /\ d.type = "TEXT" /\ c.type = "TEXT"
                                /\ d.characters = c.characters
                                /\ d.fontSize = c.fontSize
                                /\ d.fontFamily = c.fontFamily)
\* Those of a group that lie within 6 px of its median on both axes.
NearMedian(group) ==
  LET mx == MedianX(group)
      my == MedianY(group)
  IN SelectSeq(group, LAMBDA d : Abs(d.x2 - mx) <= 12 /\ Abs(d.y2 - my) <= 12)
FarFromMedian(group) ==
  LET mx == MedianX(group)
      my == MedianY(group)
  IN SelectSeq(group, LAMBDA d : Abs(d.x2 - mx) > 12 \/ Abs(d.y2 - my) > 12)
\* At least 5 members, at least 5 of them in the core, core spread <= 8 px.
Qualifies(group) ==
  /\ Len(group) >= 5
  /\ LET near == NearMedian(group)
     IN /\ Len(near) >= 5
        /\ \A i, j \in 1..Len(near) :
             Abs(near[i].x2 - near[j].x2) <= 16 /\ Abs(near[i].y2 - near[j].y2) <= 16

\* C23: a node is flagged stroke-duplicate only if it belongs to a group of
\* TEXT siblings of identical content, font size and font family with at
\* least 5 members, at least 5 core members and a core spread of at most
\* 8 px on both axes; the members of a group failing a test are left as
\* they were.
C23_OnlyQualifyingGroupsFlagged ==
  sdPc = "deduped" =>
    \A i \in 1..Len(sdInput) :
      LET ok == Qualifies(SameTexts(sdInput[i]))
      IN /\ sdInput[i].id \in sdFlagged => ok
         /\ ~ok => sdInput[i] \in Range(sdChildren)
\* A loose group, 8 copies spread over 9 px, has been through the resolver.
C23_Witness ==
  /\ sdPc = "deduped"
  /\ \E i \in 1..Len(sdInput) :
       /\ Len(SameTexts(sdInput[i])) >= 5
       /\ Len(NearMedian(SameTexts(sdInput[i]))) >= 5
       /\ ~Qualifies(SameTexts(sdInput[i]))
  /\ sdChildren = sdInput

\* The survivor the priority rule names: the first outlier with a gradient
\* fill or a visible effect, else the last outlier, else the last core member.
ExpectedSurvivor(group) ==
  LET far == FarFromMedian(group)
      near == NearMedian(group)
      styled == SelectSeq(far, LAMBDA d : d.gradient \/ d.effects)
  IN IF Len(styled) > 0 THEN styled[1].id
     ELSE IF Len(far) > 0 THEN far[Len(far)].id
     ELSE near[Len(near)].id

C25_DedupIdempotent ==
  [][(sdPc = "deduped" /\ SdDedup) =>
       /\ sdChildren' = sdChildren
       /\ sdFlagged' = sdFlagged
       /\ sdRemoved' = 0]_vars
\* The second run after a run that removed nodes.
C25_Witness ==
  /\ sdPc = "deduped" /\ sdFlagged # {} /\ sdRemoved = 0

\* C26: on a re-export a node that the diff classifies as unchanged is not
\* passed through the asset cache in that run: its hash is neither looked up
\* nor uploaded, the reuse map having been computed before asset resolution.
C26_UnchangedSkipsAssetCache ==
  dfPc = "diffed" => dfResult.unchanged \cap dfLooked = {}

\* The emitted Position, Size and AnchorPoint of one axis evaluated at the
\* parent's extent par2 (half pixels): the near edge and the extent of the
\* element, both in quarter pixels.
ScaledQ(frac, par2) == (2 * frac[1] * par2) \div frac[2]
ExtentQ(ss, so, par2) == ScaledQ(ss, par2) + 4 * so
NearEdgeQ(ps, po, ss, so, a, par2) ==
  ScaledQ(ps, par2) + 4 * po - (a[1] * ExtentQ(ss, so, par2)) \div a[2]
\* Within one pixel, the room that two roundings to whole pixels need.
WithinRounding(q, h2) == Abs(q - 2 * h2) <= 4
\* A node placed by its constraints: not the root, in a parent without auto
\* layout whose size is known, emitted, and with no expanded render bounds.
FreeFloating ==
  /\ geoPc = "emitted" /\ geoOut # NoOutput
  /\ ~geoCall.isRoot /\ ~geoCall.parentHasAutoLayout /\ geoCall.pw2 > 0
  /\ geoNode.renderBounds = "absent"

\* C30: for a free-floating node under every constraint type on each axis,
\* the emitted position, size and anchor evaluated at the parent's design
\* width and height give back the node's design rectangle to within
\* rounding.
C30_GeometryReproducesRectangle ==
  FreeFloating =>
    /\ WithinRounding(NearEdgeQ(geoOut.pos.xs, geoOut.pos.xo, geoOut.size.xs, geoOut.size.xo,
                                geoOut.anchor.x, geoCall.pw2), geoNode.x2)
    /\ WithinRounding(ExtentQ(geoOut.size.xs, geoOut.size.xo, geoCall.pw2), geoNode.w2)
    /\ WithinRounding(NearEdgeQ(geoOut.pos.ys, geoOut.pos.yo, geoOut.size.ys, geoOut.size.yo,
                                geoOut.anchor.y, geoCall.ph2), geoNode.y2)
    /\ WithinRounding(ExtentQ(geoOut.size.ys, geoOut.size.yo, geoCall.ph2), geoNode.h2)


\* ------------------------------------------------- claims on the assembly
Assembled == asmPc \in {"assembled", "repeated"}
RolesIn(out) == {out[i].role : i \in 1..Len(out)}
RefsOf(out) == [i \in 1..Len(out) |-> out[i].ref]
\* The index of the element that encloses element i; 0 at the top level.
ParentIdx(out, i) ==
  IF out[i].depth = 0 THEN 0
  ELSE CHOOSE j \in 1..(i - 1) :
         /\ out[j].depth = out[i].depth - 1
         /\ \A k \in (j + 1)..(i - 1) : out[k].depth >= out[i].depth
\* The index of the element emitted for design node id; 0 when there is none.
IdxOfNode(out, id) ==
  IF \E i \in 1..Len(out) : out[i].node = id
  THEN CHOOSE i \in 1..Len(out) : out[i].node = id
  ELSE 0
\* The panel of the manifest and the children of its parsed child list.
ThePanel == asmManifest.root.children[1]
\* Child k of the panel was emitted outside the panel's element.
PromotedOut(out, k) ==
  LET ci == IdxOfNode(out, ThePanel.children[k].id)
  IN ci # 0 /\ ParentIdx(out, ci) # IdxOfNode(out, ThePanel.id)

\* C21: within one assembly run every emitted element (design nodes, _BG
\* underlays, overlays, layout helpers, shadows, promoted children and the
\* ScreenGui) has a referent that no other element has, and a repeated run on
\* the same manifest yields the same referents, element by element.
C21_UniqueReferentsAndFreshCounter ==
  Assembled =>
    /\ \A i, j \in 1..Len(asmOut) : i # j => asmOut[i].ref # asmOut[j].ref
    /\ asmPc = "repeated" => RefsOf(asmOut) = RefsOf(asmPrev)
C21_Witness ==
  /\ asmPc = "repeated"
  /\ {"node", "bg", "overlay", "layout", "shadow", "screen", "corner"} \subseteq RolesIn(asmOut)
  /\ \E k \in 1..Len(ThePanel.children) : PromotedOut(asmOut, k)


\* getEffectiveCornerRadius(node).radiusPx of the shared module, for a node
\* that is no ellipse: the largest of the four corners of an array.
getEffectiveCornerRadius(cornerRadius) ==
  IF IsArray(cornerRadius)
  THEN MaxOf({cornerRadius[2], cornerRadius[3], cornerRadius[4], cornerRadius[5]})
  ELSE cornerRadius[2]
NonUniform(cornerRadius) ==
  IsArray(cornerRadius) /\ Cardinality({cornerRadius[k] : k \in 2..5}) > 1
\* The panel was emitted as a container.
PanelIsContainer ==
  Assembled /\ ~ThePanel.isFlattened /\ Len(ThePanel.children) > 0
\* The CornerRadius of a UICorner for radius r on a node of the panel's size.
CornerFor(r) ==
  IF 2 * r >= MinOf({ThePanel.width, ThePanel.height}) THEN <<"scale", 5>>
  ELSE <<"offset", r>>

\* C29: for a node whose corner radius is non-uniform, the corner radius
\* emitted for its element and for its _BG underlay is the maximum of the four
\* corner values.
C29_NonUniformRadiusEmitsMaximum ==
  (PanelIsContainer /\ NonUniform(ThePanel.cornerRadius)) =>
    LET pi == IdxOfNode(asmOut, ThePanel.id)
        want == CornerFor(getEffectiveCornerRadius(ThePanel.cornerRadius))
    IN \A i \in 1..Len(asmOut) :
         /\ (asmOut[i].role = "corner" /\ ParentIdx(asmOut, i) = pi) => asmOut[i].cr = want
         /\ (asmOut[i].role = "bgcorner" /\ ParentIdx(asmOut, ParentIdx(asmOut, i)) = pi)
              => asmOut[i].cr = want


\* The indices of the children of element i that are drawn (the UICorner,
\* UIStroke, UIListLayout and UIPadding children have no ZIndex).
DrawnChildren(out, i) ==
  {j \in 1..Len(out) :
     ParentIdx(out, j) = i /\ out[j].class \in {"Frame", "ImageLabel", "TextLabel", "TextButton"}}

\* C27: every emitted node whose name matches the interactivity heuristic
\* has the click-target overlay as its last child, with a ZIndex strictly
\* greater than that of every other child of the node.
C27_InteractiveNodesCarryOverlay ==
  Assembled =>
    \A i \in 1..Len(asmOut) :
      (asmOut[i].role = "node" /\ isInteractive(asmOut[i].name[1])) =>
        LET kids == DrawnChildren(asmOut, i)
        IN /\ kids # {}
           /\ asmOut[MaxOf(kids)].role = "overlay"
           /\ \A j \in kids \ {MaxOf(kids)} : asmOut[j].z < asmOut[MaxOf(kids)].z


\* C28: a child of a free-form parent is promoted (emitted as a sibling of the
\* parent, its position translated by the parent's position) exactly when the
\* parent clips its content and the child overflows the parent's bounds and
\* matches the interactivity heuristic.
C28_PromotedExactlyWhenParentClips ==
  (PanelIsContainer /\ ~ThePanel.autoLayout) =>
    LET pi == IdxOfNode(asmOut, ThePanel.id)
    IN \A k \in 1..Len(ThePanel.children) :
         LET child == ThePanel.children[k]
             ci == IdxOfNode(asmOut, child.id)
         IN ci # 0 =>
              /\ PromotedOut(asmOut, k) <=>
                   (asmOut[pi].clips /\ exceedsBounds(child, ThePanel)
                    /\ isInteractive(child.name))
              /\ PromotedOut(asmOut, k) =>
                   /\ ParentIdx(asmOut, ci) = ParentIdx(asmOut, pi)
                   /\ asmOut[ci].x = child.x + ThePanel.x
                   /\ asmOut[ci].y = child.y + ThePanel.y


\* The ancestors-or-selves of elements i and j that are children of one
\* element (neither element encloses the other).
RECURSIVE Meet(_, _, _)
Meet(out, i, j) ==
  IF ParentIdx(out, i) = ParentIdx(out, j) THEN <<i, j>>
  ELSE IF out[i].depth > out[j].depth THEN Meet(out, ParentIdx(out, i), j)
  ELSE IF out[j].depth > out[i].depth THEN Meet(out, i, ParentIdx(out, j))
  ELSE Meet(out, ParentIdx(out, i), ParentIdx(out, j))
\* Element i is painted before (below) element j: under sibling z-ordering
\* the children of one element are painted by ZIndex and, for equal ZIndex, in
\* document order, each with all that it encloses.
PaintsBefore(out, i, j) ==
  LET m == Meet(out, i, j)
  IN \/ out[m[1]].z < out[m[2]].z
     \/ out[m[1]].z = out[m[2]].z /\ m[1] < m[2]

\* C22: the elements emitted for the design children of a container are
\* painted in the order of the container's child list, promotion included.
C22_ChildrenPaintInListOrder ==
  PanelIsContainer =>
    \A a, b \in 1..Len(ThePanel.children) :
      LET ia == IdxOfNode(asmOut, ThePanel.children[a].id)
          ib == IdxOfNode(asmOut, ThePanel.children[b].id)
      IN (a < b /\ ia # 0 /\ ib # 0) => PaintsBefore(asmOut, ia, ib)

====
